---- MODULE Spec2Model ----
(***************************************************************************)
(* A model of the silica GUI core: the widget tree driver (Gui), its input *)
(* dispatcher with grab/block semantics, the deferred event queue          *)
(* (EventExecutor / EventFn) and the exclusive button group.               *)
(*                                                                         *)
(* Geometry is modelled on the x axis only: a Rect is an interval          *)
(* [min, max) and SideOffsets are a (left, right) pair.  The source        *)
(* treats the y axis identically.                                          *)
(***************************************************************************)
EXTENDS Integers, Sequences, FiniteSets, TLC

\* ------------------------------------------------------------------ bounds
MaxNodes == 4        \* node handles ever created in one tree
MaxSpecial == 1      \* nodes of an initial scene that are not a plain visible widget
MaxMutations == 1    \* tree / widget mutations applied in one run
MaxQueue == 3        \* units the application queues on one executor
MaxHotkeys == 2      \* members of an exclusive group that have a hotkey

\* Option::None for node handles, hotkeys and parents.
None == 0

Node == 1 .. MaxNodes

\* Gui::new makes the first node of the tree the root.
Root == 1

VARIABLES
    nodes,         \* TaffyTree: the live node handles
    widget,        \* TaffyTree node context: the Box<dyn Widget> of each node
    children,      \* TaffyTree: ordered children list of each node
    parent,        \* TaffyTree: parent of each node
    dirty,         \* TaffyTree::dirty(root)
    solved,        \* the Layout the solver computes for each node from its Style
    final_layout,  \* TaffyTree: final Layout of each node (read by get_final_layout)
    layouts,       \* Gui.layouts: Vec<Vec<WidgetLayout>>, one list per layer
    input,         \* Gui.input: GuiInput
    grabbed_node,  \* Gui.grabbed_node
    draw_dirty,    \* Gui.draw_dirty
    group,         \* the ExclusiveGroup shared by the exclusive buttons
    executor,      \* the EventExecutor the caller holds
    panicked,      \* the process aborted on a panic
    last_event,    \* history: the event of the last input_event call
    was_grabbed,   \* history: Gui.grabbed_node when the last input_event call started
    seen,          \* history: GuiInput as process() left it in the last input_event call
    visited,       \* history: the Widget::input calls of the last input_event call
    unconsumed,    \* history: the Option<InputEvent> the last input_event call returned
    invoked,       \* history: the units the last execute call invoked
    submitted,     \* history: the queue and the context the last execute call was given
    muts,          \* history: number of mutations applied so far
    last_op,       \* history: whether the last call was input_event, execute or another
    prev_grabbers, \* history: the nodes whose handler returned Grab in the call before the last
    laid,          \* history: the children lists and widgets the last layout pass read
    style,         \* silica-layout: Node.style of each node
    lwidget,       \* silica-layout: Node.widget, as the size its measure() answers
    area,          \* silica-layout: Node.area of each node
    arranged,      \* history: the rect each node was passed by the last arrange pass
    notified,      \* history: the nodes whose widget got a layout() call in the last pass
    window,        \* the rect the tree is laid out in (Gui::set_area)
    passes         \* history: the traversals Gui::layout ran since the last mutation

vars == << nodes, widget, children, parent, dirty, solved, final_layout, layouts,
           input, grabbed_node, draw_dirty, group, executor, panicked,
           last_event, was_grabbed, seen, visited, unconsumed, invoked, submitted, muts,
           last_op, prev_grabbers, laid, style, lwidget, area, arranged, notified,
           window, passes >>

layout_vars == << style, lwidget, area, arranged, notified, window, passes >>

gui_tree == << nodes, children, parent, solved >>
history_exec == << invoked, submitted >>
history_input == << last_event, was_grabbed, seen, visited, unconsumed, prev_grabbers >>

\* ---------------------------------------------------------------- sequences
Reverse(s) == [i \in 1 .. Len(s) |-> s[Len(s) + 1 - i]]

RECURSIVE Flatten(_)
Flatten(ss) == IF ss = << >> THEN << >> ELSE Head(ss) \o Flatten(Tail(ss))

Range(s) == {s[i] : i \in 1 .. Len(s)}

\* Vec::retain(|f| *f != x)
RECURSIVE Without(_, _)
Without(s, x) ==
    IF s = << >> THEN << >>
    ELSE IF Head(s) = x THEN Without(Tail(s), x)
    ELSE << Head(s) >> \o Without(Tail(s), x)

\* ----------------------------------------------------------------- geometry
SideOffsets(l, r) == [left |-> l, right |-> r]

Rect(lo, hi) == [min |-> lo, max |-> hi]

\* euclid Box2D::inner_box
inner_box(rect, offsets) == Rect(rect.min + offsets.left, rect.max - offsets.right)

\* euclid Box2D::translate
translate(rect, by) == Rect(rect.min + by, rect.max + by)

\* euclid Box2D::contains: min <= p < max
contains(rect, p) == rect.min <= p /\ p < rect.max

TaffyLayout(loc, size, border, padding) ==
    [location |-> loc, size |-> size, border |-> border, padding |-> padding]

\* taffy Layout::new(): what get_final_layout returns before the first layout pass
ZeroLayout == TaffyLayout(0, 0, SideOffsets(0, 0), SideOffsets(0, 0))

\* LayoutExt::rect
LayoutRect(layout) == Rect(layout.location, layout.location + layout.size)

\* LayoutExt::content_rect
LayoutContentRect(layout) ==
    inner_box(inner_box(LayoutRect(layout), layout.border), layout.padding)

WidgetLayout(node, rect, border, padding) ==
    [node |-> node, rect |-> rect, border |-> border, padding |-> padding]

\* WidgetLayout::content_rect
content_rect(wl) == inner_box(inner_box(wl.rect, wl.border), wl.padding)

\* -------------------------------------------------------------------- input
InputAction == {"Pass", "Block", "Grab"}

\* InputEvent, as the fields GuiInput::process reads: the hotkey a keyboard event
\* resolves to (to_hotkey), the point of a motion, is_primary_button / is_pressed.
Event(type, hotkey, point, primary, pressed) ==
    [type |-> type, hotkey |-> hotkey, point |-> point, primary |-> primary,
     pressed |-> pressed]

Keyboard(hotkey) == Event("Keyboard", hotkey, 0, FALSE, FALSE)
MouseMotion(point) == Event("MouseMotion", None, point, FALSE, FALSE)
MouseButton(primary, pressed) == Event("MouseButton", None, 0, primary, pressed)
MouseWheel == Event("MouseWheel", None, 0, FALSE, FALSE)

\* GuiInput::default
DefaultInput ==
    [blocked |-> FALSE, grabbed |-> FALSE, pointer |-> 0, button_pressed |-> FALSE,
     clicked |-> FALSE, double_clicked |-> FALSE, hotkey |-> None]


\* process taking every primary press as a click, pressed before or not
process_any_press(inp, event) ==
    CASE event.type = "Keyboard" -> [inp EXCEPT !.hotkey = event.hotkey]
      [] event.type = "MouseMotion" -> [inp EXCEPT !.pointer = event.point]
      [] event.type = "MouseButton" ->
            IF event.primary
            THEN [inp EXCEPT !.clicked = IF event.pressed THEN TRUE ELSE inp.clicked,
                             !.button_pressed = event.pressed]
            ELSE inp
      [] OTHER -> inp

\* GuiInput::process
process(inp, event) ==
    CASE event.type = "Keyboard" -> [inp EXCEPT !.hotkey = event.hotkey]
      [] event.type = "MouseMotion" -> [inp EXCEPT !.pointer = event.point]
      [] event.type = "MouseButton" ->
            IF event.primary
            THEN [inp EXCEPT !.clicked = IF ~inp.button_pressed /\ event.pressed
                                         THEN TRUE ELSE inp.clicked,
                             !.button_pressed = event.pressed]
            ELSE inp
      [] OTHER -> inp

\* reset putting the whole snapshot back to its default
reset_all(inp) == DefaultInput

\* GuiInput::reset
reset(inp) ==
    [inp EXCEPT !.blocked = FALSE, !.grabbed = FALSE, !.clicked = FALSE,
                !.double_clicked = FALSE, !.hotkey = None]

\* ------------------------------------------------------------- event queue
\* EventFn: the constructor that built it (new / new_param), the context type C
\* and parameter type P it was instantiated with, and the closure it wraps.
EventFn(ctor, ctx, ptype, name) ==
    [ctor |-> ctor, ctx |-> ctx, ptype |-> ptype, name |-> name]

NoEventFn == EventFn("", "", "", "")

\* Option<Box<dyn Any>>: the dynamic type of the boxed value and the value,
\* written as a sequence of integers.
Param(type, value) == [some |-> TRUE, type |-> type, value |-> value]

NoParam == [some |-> FALSE, type |-> "", value |-> << >>]

\* EventExecutor::new; held is whether the caller holds it (execute consumes it).
NewExecutor == [funcs |-> << >>, draw_dirty |-> FALSE, held |-> TRUE]

NoExecutor == [funcs |-> << >>, draw_dirty |-> FALSE, held |-> FALSE]

\* EventExecutor::mark_draw_dirty
mark_draw_dirty(ex) == [ex EXCEPT !.draw_dirty = TRUE]

\* EventExecutor::queue
queue(ex, event, param) ==
    [ex EXCEPT !.funcs = Append(@, [event |-> event, param |-> param])]

\* ------------------------------------------------------------------ widgets
ButtonState == {"Normal", "Hover", "Press", "Disable"}

MakeWidget(kind, visible, separate_layer, state, hotkey, toggled, on_clicked, event, index) ==
    [kind |-> kind, visible |-> visible, separate_layer |-> separate_layer,
     state |-> state, hotkey |-> hotkey, toggled |-> toggled,
     on_clicked |-> on_clicked, event |-> event, index |-> index]

\* a node created by create_container: no node context
NoWidget == MakeWidget("none", TRUE, FALSE, "Normal", None, FALSE, "", NoEventFn, 0)

\* any implementation of the Widget trait: visible() and separate_layer() are
\* what it answers, and its input() may return any InputAction
GenericWidget(visible, separate_layer) ==
    MakeWidget("generic", visible, separate_layer, "Normal", None, FALSE, "", NoEventFn, 0)

\* ExclusiveGroup::new: deselect_others takes the Gui and a (group, index) pair
DeselectOthers == EventFn("new_param", "Gui", "GroupIndex", "deselect_others")

\* ExclusiveGroup::new: on_selected wraps the caller's Fn(&mut C, Option<usize>)
OnSelected(ctx) == EventFn("new_param", ctx, "OptionUsize", "on_selected")

\* Button::new_exclusive + ButtonBuilder::build_exclusive (set_enabled, hotkey)
ExclusiveButton(enabled, toggled, hotkey, index) ==
    MakeWidget("button", TRUE, FALSE, IF enabled THEN "Normal" ELSE "Disable",
               hotkey, toggled, "Exclusive", NoEventFn, index)

\* handle_input taking the pointer as over the button whether or not an
\* earlier handler blocked
handle_input_unblocked(state, inp, hotkey, rect) ==
    LET pointer_over == contains(rect, inp.pointer)
        action == IF pointer_over THEN "Block" ELSE "Pass"
        hotkey_pressed == inp.hotkey # None /\ inp.hotkey = hotkey
        next == IF hotkey_pressed \/ inp.button_pressed THEN "Press"
                ELSE IF pointer_over THEN "Hover"
                ELSE "Normal"
    IN  IF state = "Disable"
        THEN [state |-> state, action |-> action, changed |-> FALSE, clicked |-> FALSE]
        ELSE IF ~hotkey_pressed /\ ~inp.grabbed /\ ~pointer_over
        THEN [state |-> "Normal", action |-> "Pass", changed |-> state # "Normal",
              clicked |-> FALSE]
        ELSE [state |-> next, action |-> action, changed |-> state # next,
              clicked |-> next = "Press" /\ (hotkey_pressed \/ inp.clicked)]

\* ButtonState::handle_input
handle_input(state, inp, hotkey, rect) ==
    LET pointer_over == ~inp.blocked /\ contains(rect, inp.pointer)
        action == IF pointer_over THEN "Block" ELSE "Pass"
        hotkey_pressed == inp.hotkey # None /\ inp.hotkey = hotkey
        next == IF hotkey_pressed \/ inp.button_pressed THEN "Press"
                ELSE IF pointer_over THEN "Hover"
                ELSE "Normal"
    IN  IF state = "Disable"
        THEN [state |-> state, action |-> action, changed |-> FALSE, clicked |-> FALSE]
        ELSE IF ~hotkey_pressed /\ ~inp.grabbed /\ ~pointer_over
        THEN [state |-> "Normal", action |-> "Pass", changed |-> state # "Normal",
              clicked |-> FALSE]
        ELSE [state |-> next, action |-> action, changed |-> state # next,
              clicked |-> next = "Press" /\ (hotkey_pressed \/ inp.clicked)]

\* ExclusiveClicked queueing the notification before the deselect unit
ExclusiveClickedNotifyFirst(w, ex, grp) ==
    IF ~w.toggled \/ grp.allow_deselect
    THEN LET toggled == ~w.toggled
             param == IF toggled THEN << w.index >> ELSE << >>
             ex1 == queue(ex, grp.on_selected, Param("OptionUsize", param))
         IN  [widget |-> [w EXCEPT !.toggled = toggled],
              executor |-> IF toggled
                           THEN queue(ex1, grp.deselect_others,
                                      Param("GroupIndex", << w.index >>))
                           ELSE ex1]
    ELSE [widget |-> w, executor |-> ex]

\* ExclusiveClicked without the test of self.toggled and group.allow_deselect
ExclusiveClickedAlways(w, ex, grp) ==
    LET toggled == ~w.toggled
        ex1 == IF toggled
               THEN queue(ex, grp.deselect_others, Param("GroupIndex", << w.index >>))
               ELSE ex
        param == IF toggled THEN << w.index >> ELSE << >>
    IN  [widget |-> [w EXCEPT !.toggled = toggled],
         executor |-> queue(ex1, grp.on_selected, Param("OptionUsize", param))]

\* Button::input, the arm of ButtonEvent::Exclusive(group, index)
ExclusiveClicked(w, ex, grp) ==
    IF ~w.toggled \/ grp.allow_deselect
    THEN LET toggled == ~w.toggled
             ex1 == IF toggled
                    THEN queue(ex, grp.deselect_others, Param("GroupIndex", << w.index >>))
                    ELSE ex
             param == IF toggled THEN << w.index >> ELSE << >>
         IN  [widget |-> [w EXCEPT !.toggled = toggled],
              executor |-> queue(ex1, grp.on_selected, Param("OptionUsize", param))]
    ELSE [widget |-> w, executor |-> ex]

\* Button::input
ButtonInput(w, inp, ex, rect, grp) ==
    LET state_input == handle_input(w.state, inp, w.hotkey, rect)
        w1 == [w EXCEPT !.state = state_input.state]
        ex1 == IF state_input.changed THEN mark_draw_dirty(ex) ELSE ex
        r == IF ~state_input.clicked THEN [widget |-> w1, executor |-> ex1]
             ELSE CASE w.on_clicked = "Normal" ->
                        [widget |-> w1, executor |-> queue(ex1, w.event, NoParam)]
                    [] w.on_clicked = "Toggle" ->
                        [widget |-> [w1 EXCEPT !.toggled = ~w.toggled],
                         executor |-> queue(ex1, w.event,
                                            Param("bool", << IF w.toggled THEN 0 ELSE 1 >>))]
                    [] OTHER -> ExclusiveClicked(w1, ex1, grp)
    IN  [widget |-> r.widget, executor |-> r.executor, action |-> state_input.action,
         clicked |-> state_input.clicked]

\* Slider::new: on_changed wraps the caller's Fn(&mut C, f32)
NewSlider ==
    MakeWidget("slider", TRUE, FALSE, "Normal", None, FALSE, "",
               EventFn("new_param", "Gui", "f32", "on_changed"), 0)

\* Slider::input, had it answered like a button and never grabbed
SliderInputNoGrab(w, inp, ex, rect) ==
    LET state_input == handle_input(w.state, inp, None, rect)
        w1 == [w EXCEPT !.state = state_input.state]
        ex1 == IF state_input.changed THEN mark_draw_dirty(ex) ELSE ex
    IN  IF w1.state = "Press"
        THEN [widget |-> w1,
              executor |-> mark_draw_dirty(queue(ex1, w.event, Param("f32", << >>))),
              action |-> state_input.action, clicked |-> FALSE]
        ELSE [widget |-> w1, executor |-> ex1, action |-> state_input.action,
              clicked |-> FALSE]

\* Slider::input; the slider has no hotkey, and the value it computes from the
\* pointer and passes to on_changed is left out of the parameter
SliderInput(w, inp, ex, rect) ==
    LET state_input == handle_input(w.state, inp, None, rect)
        w1 == [w EXCEPT !.state = state_input.state]
        ex1 == IF state_input.changed THEN mark_draw_dirty(ex) ELSE ex
    IN  IF w1.state = "Press"
        THEN [widget |-> w1,
              executor |-> mark_draw_dirty(queue(ex1, w.event, Param("f32", << >>))),
              action |-> "Grab", clicked |-> FALSE]
        ELSE [widget |-> w1, executor |-> ex1, action |-> state_input.action,
              clicked |-> FALSE]

\* Widget::input of the node's widget; act is what a generic widget's handler returns
WidgetInput(w, inp, ex, rect, grp, act) ==
    CASE w.kind = "button" -> ButtonInput(w, inp, ex, rect, grp)
      [] w.kind = "slider" -> SliderInput(w, inp, ex, rect)
      [] OTHER -> [widget |-> w, executor |-> ex, action |-> act, clicked |-> FALSE]


\* --------------------------------------------------------------- layout pass
\* TaffyTree::get_node_context_mut: the widget of a live node that has one
has_widget(ns, ws, node) == node \in ns /\ ws[node].kind # "none"

\* Gui::update_layout_data; acc is (self.layouts, whether indexing it panicked)
RECURSIVE update_layout_data(_, _, _, _, _)
RECURSIVE update_layout_children(_, _, _, _, _)
update_layout_data(fl, acc, node, layer, offset) ==
    LET layout == fl[node]
        rect == translate(LayoutRect(layout), offset)
        offset1 == offset + layout.location
        entry == WidgetLayout(node, rect, layout.border, layout.padding)
        has == has_widget(nodes, widget, node)
        visible == IF has THEN widget[node].visible ELSE TRUE
        layer1 == IF has /\ visible /\ widget[node].separate_layer THEN layer + 1 ELSE layer
        grown == IF layer1 >= Len(acc.layouts) THEN Append(acc.layouts, << >>)
                 ELSE acc.layouts
        acc1 == IF ~(has /\ visible) THEN acc
                ELSE IF layer1 >= Len(grown)
                THEN [layouts |-> grown, panic |-> TRUE]     \* index out of bounds
                ELSE [layouts |-> [grown EXCEPT ![layer1 + 1] = Append(@, entry)],
                      panic |-> FALSE]
    IN  IF acc.panic THEN acc
        ELSE IF acc1.panic \/ ~visible THEN acc1
        ELSE update_layout_children(fl, acc1, children[node], layer1, offset1)

update_layout_children(fl, acc, kids, layer, offset) ==
    IF kids = << >> THEN acc
    ELSE update_layout_children(fl, update_layout_data(fl, acc, Head(kids), layer, offset),
                                Tail(kids), layer, offset)

\* the nodes of the tree under node, in the order of the children lists
RECURSIVE Subtree(_)
RECURSIVE SubtreeOfAll(_)
Subtree(node) == << node >> \o SubtreeOfAll(children[node])

SubtreeOfAll(kids) ==
    IF kids = << >> THEN << >> ELSE Subtree(Head(kids)) \o SubtreeOfAll(Tail(kids))

\* Gui::layout
Layout ==
    /\ ~panicked
    /\ IF ~dirty
       THEN UNCHANGED vars
       ELSE LET fl == [n \in Node |-> IF n \in Range(Subtree(Root)) THEN solved[n]
                                      ELSE final_layout[n]]
                r == update_layout_data(fl, [layouts |-> << >>, panic |-> FALSE],
                                        Root, 0, 0)
            IN  /\ final_layout' = fl
                /\ dirty' = FALSE
                /\ layouts' = r.layouts
                /\ panicked' = r.panic
                /\ draw_dirty' = (draw_dirty \/ ~r.panic)
                /\ laid' = [children |-> children,
                             widget |-> [n \in Node |-> IF n \in nodes THEN widget[n]
                                                        ELSE NoWidget]]
                /\ last_op' = "other"
                /\ UNCHANGED << gui_tree, widget, input, grabbed_node, group, executor,
                                history_input, history_exec, muts, layout_vars >>

\* Gui::mark_layout_dirty(root), as set_available_space / set_surface_size do
MarkLayoutDirty ==
    /\ ~panicked
    /\ ~dirty
    /\ dirty' = TRUE
    /\ last_op' = "other"
    /\ UNCHANGED << gui_tree, widget, final_layout, layouts, input, grabbed_node,
                    draw_dirty, group, executor, panicked, history_input,
                    history_exec, muts, laid, layout_vars >>

\* ------------------------------------------------------------ input dispatch
\* the translation Gui::get_rect accumulates: the locations of all ancestors
RECURSIVE AncestorOffset(_)
AncestorOffset(node) ==
    IF parent[node] = None THEN 0
    ELSE final_layout[parent[node]].location + AncestorOffset(parent[node])

\* Gui::get_rect
get_rect(node) == translate(LayoutContentRect(final_layout[node]), AncestorOffset(node))

\* one Widget::input call: the node, the rect it was handed, what the handler
\* saw in GuiInput, what it
\* returned, whether it took the event as a click, how many units it queued and
\* the widget's toggled flag before and after
Call(node, rect, inp, action, clicked, queued, was_toggled, toggled) ==
    [node |-> node, rect |-> rect, input |-> inp, blocked |-> inp.blocked, grabbed |-> inp.grabbed,
     action |-> action, clicked |-> clicked, queued |-> queued,
     was_toggled |-> was_toggled, toggled |-> toggled]

\* the match on the InputAction in Gui::dispatch_input_event
apply_action(st, node, rect, r) ==
    [widget |-> [st.widget EXCEPT ![node] = r.widget],
     input |-> [st.input EXCEPT !.blocked = (r.action # "Pass") \/ @],
     grabbed_node |-> IF r.action = "Grab" THEN node ELSE st.grabbed_node,
     executor |-> r.executor,
     visited |-> Append(st.visited,
                        Call(node, rect, st.input, r.action, r.clicked,
                             Len(r.executor.funcs) - Len(st.executor.funcs),
                             st.widget[node].toggled, r.widget.toggled))]

\* Gui::dispatch_input_event; st carries the tree's widgets, self.input,
\* self.grabbed_node, the executor and the log of handler calls
dispatch_input_event(st, node, rect, acts) ==
    IF has_widget(nodes, st.widget, node)
    THEN apply_action(st, node, rect,
                      WidgetInput(st.widget[node], st.input, st.executor, rect, group,
                                  IF node \in DOMAIN acts THEN acts[node] ELSE "Pass"))
    ELSE st

\* DispatchAll with Block as a hard stop: the loop ends at the first handler
\* that blocks
RECURSIVE DispatchUntilBlocked(_, _, _)
DispatchUntilBlocked(st, order, acts) ==
    IF order = << >> \/ st.input.blocked THEN st
    ELSE DispatchUntilBlocked(
             dispatch_input_event(st, Head(order).node, Head(order).rect, acts),
             Tail(order), acts)

\* the loop of Gui::input_event over self.layouts.iter().flatten().rev()
RECURSIVE DispatchAll(_, _, _)
DispatchAll(st, order, acts) ==
    IF order = << >> THEN st
    ELSE DispatchAll(dispatch_input_event(st, Head(order).node, Head(order).rect, acts),
                     Tail(order), acts)

\* TraversalOrder without the rev()
TraversalOrderForward == Flatten(layouts)

\* self.layouts.iter().flatten().rev()
TraversalOrder == Reverse(Flatten(layouts))

\* the nodes whose handler result is an input of the call: the generic widgets
\* the dispatch will reach
Deciders ==
    IF grabbed_node # None
    THEN {n \in {grabbed_node} : has_widget(nodes, widget, n) /\ widget[n].kind = "generic"}
    ELSE {e.node : e \in {x \in Range(TraversalOrder) :
                            has_widget(nodes, widget, x.node)
                            /\ widget[x.node].kind = "generic"}}

\* start_dispatch reading self.grabbed_node without taking it
start_dispatch_keep_grab(event) ==
    [widget |-> widget, input |-> process(input, event), grabbed_node |-> grabbed_node,
     executor |-> NewExecutor, visited |-> << >>]

\* the head of Gui::input_event: process the event, make the executor and take
\* self.grabbed_node (which leaves None in the field)
start_dispatch(event) ==
    [widget |-> widget, input |-> process(input, event), grabbed_node |-> None,
     executor |-> NewExecutor, visited |-> << >>]

\* the two branches of Gui::input_event, from the state start_dispatch made
run_dispatch(st0, acts) ==
    IF grabbed_node # None
    THEN IF grabbed_node \notin nodes
         THEN st0                   \* get_final_layout indexes a removed node: panic
         ELSE dispatch_input_event([st0 EXCEPT !.input.grabbed = TRUE],
                                   grabbed_node, get_rect(grabbed_node), acts)
    ELSE DispatchAll(st0, TraversalOrder, acts)

\* Gui::input_event
InputEvent(event, acts) ==
    /\ ~panicked
    /\ LET stale == grabbed_node # None /\ grabbed_node \notin nodes
       IN  \E st \in {run_dispatch(start_dispatch(event), acts)} :
           /\ panicked' = stale
           /\ widget' = st.widget
           /\ grabbed_node' = st.grabbed_node
           /\ draw_dirty' = (draw_dirty \/ st.executor.draw_dirty)
           /\ input' = IF stale THEN [st.input EXCEPT !.grabbed = TRUE]
                       ELSE reset(st.input)
           /\ executor' = IF stale THEN executor ELSE st.executor
           /\ last_event' = event
           /\ was_grabbed' = grabbed_node
           /\ seen' = process(input, event)
           /\ visited' = st.visited
           /\ unconsumed' = (~stale /\ ~st.input.blocked)
           /\ prev_grabbers' = {visited[i].node : i \in {j \in 1 .. Len(visited) :
                                                         visited[j].action = "Grab"}}
    /\ last_op' = "input_event"
    /\ UNCHANGED << gui_tree, dirty, final_layout, layouts, group, history_exec, muts,
                    laid, layout_vars >>

\* ---------------------------------------------------------- event execution
\* impl EventContext for Gui: get_by_type answers for TypeId::of::<Gui>() only
GuiContext == {"Gui"}

\* an EventContext of an application: it provides its own state and the Gui
AppContext == {"App", "Gui"}

\* WidgetId<Button>::set_toggled: nothing happens when the node has no widget
set_toggled(ws, node, toggled) ==
    IF has_widget(nodes, ws, node) THEN [ws EXCEPT ![node].toggled = toggled] ELSE ws

\* the closure ExclusiveGroup::new wraps in deselect_others: the loop over
\* group.buttons.borrow().iter().enumerate()
RECURSIVE deselect_others(_, _, _, _)
deselect_others(ws, buttons, other_index, index) ==
    IF buttons = << >> THEN ws
    ELSE deselect_others(IF other_index # index
                         THEN set_toggled(ws, Head(buttons), FALSE) ELSE ws,
                         Tail(buttons), other_index + 1, index)

\* the closure f of a unit, run on the context with the unit's parameter; the
\* closures of the application do not touch the Gui
call_closure(ws, unit) ==
    IF unit.event.name = "deselect_others"
    THEN deselect_others(ws, group.buttons, 0, unit.param.value[1])
    ELSE ws

\* InvokeUnit without the downcast of the parameter to P
InvokeUnitUnchecked(st, unit, context) ==
    IF (unit.event.ctor = "new_param" /\ ~unit.param.some) \/ unit.event.ctx \notin context
    THEN [st EXCEPT !.panicked = TRUE]
    ELSE [widget |-> call_closure(st.widget, unit),
          invoked |-> Append(st.invoked, unit), panicked |-> FALSE]

\* func.0.0(context, func.1): the closure EventFn::new / EventFn::new_param
\* built. new_param expects the parameter and its downcast to P; both
\* constructors then expect get_context to find C in the context.
InvokeUnit(st, unit, context) ==
    LET no_parameter == unit.event.ctor = "new_param" /\ ~unit.param.some
        wrong_type == unit.event.ctor = "new_param" /\ unit.param.some
                      /\ unit.param.type # unit.event.ptype
        no_context == unit.event.ctx \notin context
    IN  IF no_parameter \/ wrong_type \/ no_context
        THEN [st EXCEPT !.panicked = TRUE]
        ELSE [widget |-> call_closure(st.widget, unit),
              invoked |-> Append(st.invoked, unit), panicked |-> FALSE]

\* ExecuteUnits taking the units from the back of the queue
RECURSIVE ExecuteUnitsReversed(_, _, _)
ExecuteUnitsReversed(st, funcs, context) ==
    IF funcs = << >> \/ st.panicked THEN st
    ELSE ExecuteUnitsReversed(InvokeUnit(st, funcs[Len(funcs)], context),
                              SubSeq(funcs, 1, Len(funcs) - 1), context)

\* the loop of EventExecutor::execute; a panic unwinds out of it
RECURSIVE ExecuteUnits(_, _, _)
ExecuteUnits(st, funcs, context) ==
    IF funcs = << >> \/ st.panicked THEN st
    ELSE ExecuteUnits(InvokeUnit(st, Head(funcs), context), Tail(funcs), context)

\* EventExecutor::execute(self, context): consumes the executor
Execute(context) ==
    /\ ~panicked
    /\ executor.held
    /\ \E st \in {ExecuteUnits([widget |-> widget, invoked |-> << >>, panicked |-> FALSE],
                               executor.funcs, context)} :
           /\ widget' = st.widget
           /\ invoked' = st.invoked
           /\ panicked' = st.panicked
    /\ submitted' = [funcs |-> executor.funcs, context |-> context]
    /\ executor' = NoExecutor
    /\ last_op' = "execute"
    /\ UNCHANGED << gui_tree, dirty, final_layout, layouts, input, grabbed_node,
                    draw_dirty, group, history_input, muts, laid, layout_vars >>

\* EventExecutor::queue, called by the application
Queue(event, param) ==
    /\ ~panicked
    /\ executor.held
    /\ Len(executor.funcs) < MaxQueue
    /\ executor' = queue(executor, event, param)
    /\ last_op' = "other"
    /\ UNCHANGED << gui_tree, widget, dirty, final_layout, layouts, input, grabbed_node,
                    draw_dirty, group, panicked, history_input, history_exec, muts, laid, layout_vars >>

\* EventExecutor::mark_draw_dirty, called by the application
MarkDrawDirty ==
    /\ ~panicked
    /\ executor.held
    /\ ~executor.draw_dirty
    /\ executor' = mark_draw_dirty(executor)
    /\ last_op' = "other"
    /\ UNCHANGED << gui_tree, widget, dirty, final_layout, layouts, input, grabbed_node,
                    draw_dirty, group, panicked, history_input, history_exec, muts, laid, layout_vars >>

\* ------------------------------------------------------------ tree mutation
\* Gui::delete: TaffyTree::remove drops the node, its context and its entry in
\* the parent's children list; grabbed_node and layouts are not touched.
\* Whether the removal marks the root dirty is left open.
Delete(node) ==
    /\ ~panicked
    /\ muts < MaxMutations
    /\ node \in nodes /\ node # Root
    /\ nodes' = nodes \ {node}
    /\ widget' = [widget EXCEPT ![node] = NoWidget]
    /\ children' = [n \in Node |->
                       IF n = node THEN << >>
                       ELSE IF n = parent[node] THEN Without(children[n], node)
                       ELSE children[n]]
    /\ parent' = [n \in Node |->
                     IF n = node \/ parent[n] = node THEN None ELSE parent[n]]
    /\ dirty' \in {dirty, TRUE}
    /\ muts' = muts + 1
    /\ last_op' = "other"
    /\ UNCHANGED << solved, final_layout, layouts, input, grabbed_node, draw_dirty,
                    group, executor, panicked, history_input, history_exec, laid, layout_vars >>

\* WidgetId<Visible>::set_visible: changes what visible() answers and marks the
\* drawing dirty, not the layout
SetVisible(node, visible) ==
    /\ ~panicked
    /\ muts < MaxMutations
    /\ has_widget(nodes, widget, node)
    /\ widget[node].kind = "generic"
    /\ widget[node].visible # visible
    /\ widget' = [widget EXCEPT ![node].visible = visible]
    /\ draw_dirty' = TRUE
    /\ muts' = muts + 1
    /\ last_op' = "other"
    /\ UNCHANGED << gui_tree, dirty, final_layout, layouts, input, grabbed_node,
                    group, executor, panicked, history_input, history_exec, laid, layout_vars >>

\* ------------------------------------------------- silica-layout: geometry

I32Max == 2147483647

Max(a, b) == IF a >= b THEN a ELSE b

Min(a, b) == IF a <= b THEN a ELSE b

\* i32 division truncates toward zero
TruncDiv(a, b) == IF a >= 0 THEN a \div b ELSE -((-a) \div b)

\* usize::div_ceil, for a divisor that is not zero
div_ceil(a, b) == (a + b - 1) \div b

Size(w, h) == [width |-> w, height |-> h]

ZeroSize == Size(0, 0)

size_add(a, b) == Size(a.width + b.width, a.height + b.height)

size_sub(a, b) == Size(a.width - b.width, a.height - b.height)

size_max(a, b) == Size(Max(a.width, b.width), Max(a.height, b.height))

size_min(a, b) == Size(Min(a.width, b.width), Min(a.height, b.height))

size_div(a, k) == Size(TruncDiv(a.width, k), TruncDiv(a.height, k))

PixelRect(x, y, w, h) == [x |-> x, y |-> y, width |-> w, height |-> h]

ZeroRect == PixelRect(0, 0, 0, 0)

rect_size(rect) == Size(rect.width, rect.height)

max_x(rect) == rect.x + rect.width

max_y(rect) == rect.y + rect.height

PixelOffsets(top, right, bottom, left) ==
    [top |-> top, right |-> right, bottom |-> bottom, left |-> left]

ZeroOffsets == PixelOffsets(0, 0, 0, 0)

offsets_add(a, b) ==
    PixelOffsets(a.top + b.top, a.right + b.right, a.bottom + b.bottom, a.left + b.left)

offsets_horizontal(o) == o.left + o.right

offsets_vertical(o) == o.top + o.bottom

inner_rect(rect, o) ==
    PixelRect(rect.x + o.left, rect.y + o.top,
              rect.width - offsets_horizontal(o), rect.height - offsets_vertical(o))

outer_rect(rect, o) ==
    PixelRect(rect.x - o.left, rect.y - o.top,
              rect.width + offsets_horizontal(o), rect.height + offsets_vertical(o))

\* ---------------------------------------------------- silica-layout: styles

LayoutNone == [kind |-> "None", columns |-> 0]

LayoutBox == [kind |-> "Box", columns |-> 0]

LayoutStack == [kind |-> "Stack", columns |-> 0]

LayoutGrid(columns) == [kind |-> "Grid", columns |-> columns]

Direction == {"Row", "Column", "RowReverse", "ColumnReverse"}

horizontal(direction) == direction \in {"Row", "RowReverse"}

Align == {"Stretch", "Start", "End", "Center"}

DefaultStyle ==
    [hidden |-> FALSE, min_size |-> ZeroSize, max_size |-> Size(I32Max, I32Max),
     grow |-> FALSE, layout |-> LayoutBox, direction |-> "Row",
     main_align |-> "Stretch", cross_align |-> "Stretch", gap |-> 0,
     margin |-> ZeroOffsets, border |-> ZeroOffsets, padding |-> ZeroOffsets]

box_offsets(s) == offsets_add(offsets_add(s.margin, s.border), s.padding)

box_size(s) ==
    Size(offsets_horizontal(box_offsets(s)), offsets_vertical(box_offsets(s)))

apply_min_only(s, size) == size_max(size, s.min_size)

apply_min_max(s, size) == size_min(size_max(size, s.min_size), s.max_size)

NewArea ==
    [measured_size |-> ZeroSize, hidden |-> FALSE,
     content_rect |-> ZeroRect, background_rect |-> ZeroRect]

\* Node.widget: None, or a widget whose measure() answers `size`
NoLayoutWidget == [some |-> FALSE, size |-> ZeroSize]

LayoutWidget(size) == [some |-> TRUE, size |-> size]

\* Direction::layout_area, had the reverse directions put the area at the edge
\* of what is left instead of one gap beyond it
layout_area_at_rest(direction, rect, size, gap) ==
    CASE direction = "Row" ->
           [area |-> PixelRect(rect.x, rect.y, size.width, rect.height),
            rect |-> PixelRect(rect.x + size.width + gap, rect.y,
                               rect.width - (size.width + gap), rect.height)]
      [] direction = "Column" ->
           [area |-> PixelRect(rect.x, rect.y, rect.width, size.height),
            rect |-> PixelRect(rect.x, rect.y + size.height + gap,
                               rect.width, rect.height - (size.height + gap))]
      [] direction = "RowReverse" ->
           LET rest == PixelRect(rect.x, rect.y,
                                 rect.width - (size.width + gap), rect.height)
           IN  [area |-> PixelRect(max_x(rest), rest.y, size.width, rest.height),
                rect |-> rest]
      [] direction = "ColumnReverse" ->
           LET rest == PixelRect(rect.x, rect.y,
                                 rect.width, rect.height - (size.height + gap))
           IN  [area |-> PixelRect(rest.x, max_y(rest), rest.width, size.height),
                rect |-> rest]

\* Direction::layout_area: the area cut from the front of `rect`, and the rest
layout_area(direction, rect, size, gap) ==
    CASE direction = "Row" ->
           [area |-> PixelRect(rect.x, rect.y, size.width, rect.height),
            rect |-> PixelRect(rect.x + size.width + gap, rect.y,
                               rect.width - (size.width + gap), rect.height)]
      [] direction = "Column" ->
           [area |-> PixelRect(rect.x, rect.y, rect.width, size.height),
            rect |-> PixelRect(rect.x, rect.y + size.height + gap,
                               rect.width, rect.height - (size.height + gap))]
      [] direction = "RowReverse" ->
           LET rest == PixelRect(rect.x, rect.y,
                                 rect.width - (size.width + gap), rect.height)
           IN  [area |-> PixelRect(max_x(rest) + gap, rest.y, size.width, rest.height),
                rect |-> rest]
      [] direction = "ColumnReverse" ->
           LET rest == PixelRect(rect.x, rect.y,
                                 rect.width, rect.height - (size.height + gap))
           IN  [area |-> PixelRect(rest.x, max_y(rest) + gap, rest.width, size.height),
                rect |-> rest]

\* Align::align_area
align_area(align, is_horizontal, rect, size) ==
    IF align = "Stretch"
    THEN rect
    ELSE LET inner_size == IF is_horizontal THEN size.width ELSE size.height
             outer_size == IF is_horizontal THEN rect.width ELSE rect.height
             offset == CASE align = "End" -> outer_size - inner_size
                         [] align = "Center" -> TruncDiv(outer_size - inner_size, 2)
                         [] OTHER -> 0
         IN  IF is_horizontal
             THEN PixelRect(rect.x + offset, rect.y, size.width, rect.height)
             ELSE PixelRect(rect.x, rect.y + offset, rect.width, size.height)

\* ---------------------------------------------------- silica-layout: measure

\* the nodes, as one pass reads and writes them
PassState(a) ==
    [area |-> a, arranged |-> [n \in Node |-> << >>], notified |-> {}, panicked |-> FALSE]

Measured(st, size) == [st |-> st, size |-> size]

\* children.get(id)
has_children(id) == id \in DOMAIN children

\* what a container's measure loop does with one child (or one grid column)
consume(direction, gap, available_space, child_size) ==
    IF horizontal(direction)
    THEN Size(available_space.width - (child_size.width + gap), available_space.height)
    ELSE Size(available_space.width, available_space.height - (child_size.height + gap))

accumulate(direction, gap, size, child_size) ==
    IF horizontal(direction)
    THEN Size((IF size.width > 0 THEN size.width + gap ELSE size.width) + child_size.width,
              Max(size.height, child_size.height))
    ELSE Size(Max(size.width, child_size.width),
              (IF size.height > 0 THEN size.height + gap ELSE size.height) + child_size.height)

\* indices column, column + columns, ... of a list of `len` children (1-based)
step_by(column, len, columns) ==
    [k \in 1 .. div_ceil(Max(len - column + 1, 0), columns) |-> column + (k - 1) * columns]

RECURSIVE measure(_, _, _)
RECURSIVE BoxMeasureLoop(_, _, _, _, _)
RECURSIVE StackMeasureLoop(_, _, _, _)
RECURSIVE GridColumnMeasure(_, _, _, _)
RECURSIVE GridColumnStore(_, _, _)
RECURSIVE GridMeasureLoop(_, _, _, _, _)

BoxMeasureLoop(st, id, kids, available_space, size) ==
    IF kids = << >>
    THEN Measured(st, size)
    ELSE LET m == measure(st, Head(kids), available_space)
         IN  BoxMeasureLoop(m.st, id, Tail(kids),
                            consume(style[id].direction, style[id].gap, available_space, m.size),
                            accumulate(style[id].direction, style[id].gap, size, m.size))

BoxLayout_measure(st, id, available_space) ==
    IF ~has_children(id)
    THEN Measured(st, ZeroSize)
    ELSE BoxMeasureLoop(st, id, children[id], available_space, ZeroSize)

StackMeasureLoop(st, kids, available_space, size) ==
    IF kids = << >>
    THEN Measured(st, size)
    ELSE LET m == measure(st, Head(kids), available_space)
         IN  StackMeasureLoop(m.st, Tail(kids), available_space, size_max(size, m.size))

StackLayout_measure(st, id, available_space) ==
    IF ~has_children(id)
    THEN Measured(st, ZeroSize)
    ELSE StackMeasureLoop(st, children[id], available_space, ZeroSize)

\* the largest measure of the children of one column
GridColumnMeasure(st, kids, available_space, child_size) ==
    IF kids = << >>
    THEN Measured(st, child_size)
    ELSE LET m == measure(st, Head(kids), available_space)
         IN  GridColumnMeasure(m.st, Tail(kids), available_space, size_max(child_size, m.size))

\* every child of the column is given the column's size
GridColumnStore(st, kids, child_size) ==
    IF kids = << >>
    THEN st
    ELSE GridColumnStore([st EXCEPT !.area[Head(kids)].measured_size = child_size],
                         Tail(kids), child_size)

GridMeasureLoop(st, id, column, available_space, size) ==
    IF column > style[id].layout.columns
    THEN Measured(st, size)
    ELSE LET child_ids == children[id]
             picked == step_by(column, Len(child_ids), style[id].layout.columns)
             kids == [k \in DOMAIN picked |-> child_ids[picked[k]]]
             m == GridColumnMeasure(st, kids, available_space, ZeroSize)
         IN  GridMeasureLoop(GridColumnStore(m.st, kids, m.size), id, column + 1,
                             consume(style[id].direction, style[id].gap, available_space, m.size),
                             accumulate(style[id].direction, style[id].gap, size, m.size))

GridLayout_measure(st, id, available_space) ==
    IF ~has_children(id)
    THEN Measured(st, ZeroSize)
    ELSE LET columns == style[id].layout.columns
             gap == style[id].gap
             m == GridMeasureLoop(st, id, 1, available_space, ZeroSize)
         IN  IF columns = 0
             THEN Measured([m.st EXCEPT !.panicked = TRUE], ZeroSize)
             ELSE LET rows == div_ceil(Len(children[id]), columns)
                  IN  IF rows > 0
                      THEN IF horizontal(style[id].direction)
                           THEN Measured(m.st, Size(m.size.width,
                                                    m.size.height * rows + gap * (rows - 1)))
                           ELSE Measured(m.st, Size(m.size.width * rows + gap * (rows - 1),
                                                    m.size.height))
                      ELSE m

Layout_measure(st, id, available_space) ==
    CASE style[id].layout.kind = "None" -> Measured(st, ZeroSize)
      [] style[id].layout.kind = "Box" -> BoxLayout_measure(st, id, available_space)
      [] style[id].layout.kind = "Stack" -> StackLayout_measure(st, id, available_space)
      [] style[id].layout.kind = "Grid" -> GridLayout_measure(st, id, available_space)

measure(st, id, available_space) ==
    IF st.panicked
    THEN Measured(st, ZeroSize)
    ELSE LET s == style[id]
             available == apply_min_max(s, size_sub(available_space, box_size(s)))
             m == Layout_measure(st, id, available)
             size == IF lwidget[id].some THEN size_max(m.size, lwidget[id].size) ELSE m.size
             total == size_add(apply_min_max(s, size), box_size(s))
         IN  IF m.st.panicked
             THEN m
             ELSE Measured([m.st EXCEPT !.area[id].measured_size = total], total)

\* ----------------------------------------------------- silica-layout: layout

main_size(direction, size) == IF horizontal(direction) THEN size.width ELSE size.height

main_only(direction, length) ==
    IF horizontal(direction) THEN Size(length, 0) ELSE Size(0, length)

RECURSIVE used_size(_, _, _, _)
used_size(st, direction, gap, kids) ==
    IF kids = << >>
    THEN 0
    ELSE main_size(direction, st.area[Head(kids)].measured_size) + gap
         + used_size(st, direction, gap, Tail(kids))

grow_count(kids) == Cardinality({i \in DOMAIN kids : style[kids[i]].grow})

\* the space left on the main axis once the children and the gaps are placed
unused_size(st, direction, gap, kids, rect) ==
    main_only(direction,
              Max(main_size(direction, rect_size(rect))
                  - used_size(st, direction, gap, kids) + gap, 0))

grow_space_of_all(unused, count) == unused

grow_space(unused, count) == IF count > 0 THEN size_div(unused, count) ELSE ZeroSize

\* where the first child starts: main_align moves it when no child grows
aligned_start(direction, main_align, rect, unused, count) ==
    IF count > 0
    THEN rect
    ELSE CASE main_align = "End" -> layout_area(direction, rect, unused, 0).rect
           [] main_align = "Center" -> layout_area(direction, rect, size_div(unused, 2), 0).rect
           [] OTHER -> rect

grown_size(st, child, grow) ==
    IF style[child].grow
    THEN size_add(st.area[child].measured_size, grow)
    ELSE st.area[child].measured_size

collapsed_never(rect, offsets) == FALSE

collapsed_strictly(rect, offsets) ==
    \/ rect.width < offsets_horizontal(offsets)
    \/ rect.height < offsets_vertical(offsets)

collapsed(rect, offsets) ==
    \/ rect.width <= offsets_horizontal(offsets)
    \/ rect.height <= offsets_vertical(offsets)

RECURSIVE layout(_, _, _)
RECURSIVE BoxLayoutLoop(_, _, _, _, _)
RECURSIVE StackLayoutLoop(_, _, _, _)
RECURSIVE GridColumnLayout(_, _, _, _, _)
RECURSIVE GridLayoutLoop(_, _, _, _, _, _, _)

RECURSIVE BoxLayoutLoopOwnAlign(_, _, _, _, _)
RECURSIVE StackLayoutLoopNoGrow(_, _, _, _)

\* BoxLayout::layout, had it aligned every child by the child's cross_align
BoxLayoutLoopOwnAlign(st, id, kids, rect, grow) ==
    IF kids = << >>
    THEN st
    ELSE LET direction == style[id].direction
             child_size == grown_size(st, Head(kids), grow)
             cut == layout_area(direction, rect, child_size, style[id].gap)
             child_rect == align_area(style[Head(kids)].cross_align, ~horizontal(direction),
                                      cut.area, child_size)
         IN  BoxLayoutLoopOwnAlign(layout(st, Head(kids), child_rect), id, Tail(kids),
                                   cut.rect, grow)

\* StackLayout::layout, had it ignored the children's grow
StackLayoutLoopNoGrow(st, id, kids, rect) ==
    IF kids = << >>
    THEN st
    ELSE LET child == Head(kids)
             direction == style[id].direction
             child_size == st.area[child].measured_size
             main_rect == align_area(style[id].main_align, horizontal(direction), rect,
                                     child_size)
             child_rect == align_area(style[child].cross_align, ~horizontal(direction),
                                      main_rect, child_size)
         IN  StackLayoutLoopNoGrow(layout(st, child, child_rect), id, Tail(kids), rect)

BoxLayoutLoop(st, id, kids, rect, grow) ==
    IF kids = << >>
    THEN st
    ELSE LET direction == style[id].direction
             child_size == grown_size(st, Head(kids), grow)
             cut == layout_area(direction, rect, child_size, style[id].gap)
             child_rect == align_area(style[id].cross_align, ~horizontal(direction),
                                      cut.area, child_size)
         IN  BoxLayoutLoop(layout(st, Head(kids), child_rect), id, Tail(kids), cut.rect, grow)

BoxLayout_layout(st, id, rect) ==
    IF ~has_children(id)
    THEN st
    ELSE LET kids == children[id]
             direction == style[id].direction
             unused == unused_size(st, direction, style[id].gap, kids, rect)
             count == grow_count(kids)
         IN  BoxLayoutLoop(st, id, kids,
                           aligned_start(direction, style[id].main_align, rect, unused, count),
                           grow_space(unused, count))

StackLayoutLoop(st, id, kids, rect) ==
    IF kids = << >>
    THEN st
    ELSE LET child == Head(kids)
             direction == style[id].direction
             child_size == st.area[child].measured_size
             grow_align == IF style[child].grow THEN "Stretch" ELSE style[id].main_align
             main_rect == align_area(grow_align, horizontal(direction), rect, child_size)
             child_rect == align_area(style[child].cross_align, ~horizontal(direction),
                                      main_rect, child_size)
         IN  StackLayoutLoop(layout(st, child, child_rect), id, Tail(kids), rect)

StackLayout_layout(st, id, rect) ==
    IF ~has_children(id) THEN st ELSE StackLayoutLoop(st, id, children[id], rect)

RECURSIVE GridColumnLayoutNoGap(_, _, _, _, _)

\* GridLayout::layout, had it left no gap between the rows
GridColumnLayoutNoGap(st, id, kids, child_rect, row_size) ==
    IF kids = << >>
    THEN st
    ELSE GridColumnLayoutNoGap(layout(st, Head(kids), child_rect), id, Tail(kids),
                               IF horizontal(style[id].direction)
                               THEN [child_rect EXCEPT !.y = @ + row_size]
                               ELSE [child_rect EXCEPT !.x = @ + row_size],
                               row_size)

\* the children of one grid column, one row below (or beside) the other
GridColumnLayout(st, id, kids, child_rect, row_size) ==
    IF kids = << >>
    THEN st
    ELSE GridColumnLayout(layout(st, Head(kids), child_rect), id, Tail(kids),
                          IF horizontal(style[id].direction)
                          THEN [child_rect EXCEPT !.y = @ + row_size + style[id].gap]
                          ELSE [child_rect EXCEPT !.x = @ + row_size + style[id].gap],
                          row_size)

GridLayoutLoop(st, id, row_index, row_ids, rect, grow, row_size) ==
    IF row_index > Len(row_ids)
    THEN st
    ELSE LET direction == style[id].direction
             child_ids == children[id]
             child_size == grown_size(st, row_ids[row_index], grow)
             cut == layout_area(direction, rect, child_size, style[id].gap)
             child_rect == IF horizontal(direction)
                           THEN [cut.area EXCEPT !.height = row_size]
                           ELSE [cut.area EXCEPT !.width = row_size]
             picked == step_by(row_index, Len(child_ids), style[id].layout.columns)
             kids == [k \in DOMAIN picked |-> child_ids[picked[k]]]
         IN  GridLayoutLoop(GridColumnLayout(st, id, kids, child_rect, row_size),
                            id, row_index + 1, row_ids, cut.rect, grow, row_size)

\* the rect of the rows: cross_align moves its start on the cross axis
grid_rows_rect(direction, cross_align, rect, row_size, rows, gap) ==
    IF horizontal(direction)
    THEN LET unused == rect.height - (row_size * rows + gap * (rows - 1))
         IN  CASE cross_align = "End" ->
                    [rect EXCEPT !.y = @ + unused, !.height = @ - unused]
               [] cross_align = "Center" ->
                    [rect EXCEPT !.y = @ + TruncDiv(unused, 2),
                                 !.height = @ - TruncDiv(unused, 2)]
               [] OTHER -> rect
    ELSE LET unused == rect.width - (row_size * rows + gap * (rows - 1))
         IN  CASE cross_align = "End" ->
                    [rect EXCEPT !.x = @ + unused, !.width = @ - unused]
               [] cross_align = "Center" ->
                    [rect EXCEPT !.x = @ + TruncDiv(unused, 2),
                                 !.width = @ - TruncDiv(unused, 2)]
               [] OTHER -> rect

GridLayout_layout(st, id, rect) ==
    IF ~has_children(id)
    THEN st
    ELSE LET columns == style[id].layout.columns
             child_ids == children[id]
             direction == style[id].direction
             gap == style[id].gap
         IN  IF columns = 0
             THEN [st EXCEPT !.panicked = TRUE]
             ELSE LET rows == div_ceil(Len(child_ids), columns)
                      first_child_size == IF child_ids = << >>
                                          THEN ZeroSize
                                          ELSE st.area[child_ids[1]].measured_size
                      row_size == IF horizontal(direction)
                                  THEN first_child_size.height
                                  ELSE first_child_size.width
                      rows_rect == grid_rows_rect(direction, style[id].cross_align, rect,
                                                  row_size, rows, gap)
                      row_ids == SubSeq(child_ids, 1, Min(columns, Len(child_ids)))
                      unused == unused_size(st, direction, gap, row_ids, rows_rect)
                      count == grow_count(row_ids)
                  IN  GridLayoutLoop(st, id, 1, row_ids,
                                     aligned_start(direction, style[id].main_align,
                                                   rows_rect, unused, count),
                                     grow_space(unused, count), row_size)

Layout_layout(st, id, rect) ==
    CASE style[id].layout.kind = "None" -> st
      [] style[id].layout.kind = "Box" -> BoxLayout_layout(st, id, rect)
      [] style[id].layout.kind = "Stack" -> StackLayout_layout(st, id, rect)
      [] style[id].layout.kind = "Grid" -> GridLayout_layout(st, id, rect)

\* layout(), had it only ever set Area.hidden and never cleared it
layout_hidden_sticks(st, id, rect) ==
    IF st.panicked
    THEN st
    ELSE LET s == style[id]
             seen_rect == [st EXCEPT !.arranged[id] = << rect >>]
         IN  IF collapsed(rect, box_offsets(s))
             THEN [seen_rect EXCEPT !.area[id].hidden = TRUE]
             ELSE LET content == inner_rect(rect, box_offsets(s))
                      hidden == s.hidden \/ s.layout.kind = "None" \/ st.area[id].hidden
                      placed == [seen_rect EXCEPT
                                    !.area[id].hidden = hidden,
                                    !.area[id].content_rect = content,
                                    !.area[id].background_rect = outer_rect(content, s.padding)]
                  IN  IF hidden
                      THEN placed
                      ELSE Layout_layout(
                               IF lwidget[id].some
                               THEN [placed EXCEPT !.notified = @ \cup {id}]
                               ELSE placed,
                               id, content)

layout(st, id, rect) ==
    IF st.panicked
    THEN st
    ELSE LET s == style[id]
             seen_rect == [st EXCEPT !.arranged[id] = << rect >>]
         IN  IF collapsed(rect, box_offsets(s))
             THEN [seen_rect EXCEPT !.area[id].hidden = TRUE]
             ELSE LET content == inner_rect(rect, box_offsets(s))
                      hidden == s.hidden \/ s.layout.kind = "None"
                      placed == [seen_rect EXCEPT
                                    !.area[id].hidden = hidden,
                                    !.area[id].content_rect = content,
                                    !.area[id].background_rect = outer_rect(content, s.padding)]
                  IN  IF hidden
                      THEN placed
                      ELSE Layout_layout(
                               IF lwidget[id].some
                               THEN [placed EXCEPT !.notified = @ \cup {id}]
                               ELSE placed,
                               id, content)

measure_and_layout(st, id, rect) ==
    layout(measure(st, id, rect_size(rect)).st, id, rect)

\* ------------------------------------------------------------------- scenes
\* the elements of a set of numbers in increasing order
RECURSIVE Ascending(_)
Ascending(S) ==
    IF S = {} THEN << >>
    ELSE LET m == CHOOSE x \in S : \A y \in S : x <= y
         IN  << m >> \o Ascending(S \ {m})

\* the parent maps of the trees that create_widget / create_container and
\* add_child build when every node is attached, once, to a node created before it
ParentMaps == {p \in [Node -> Node \cup {None}] :
                 /\ p[Root] = None
                 /\ \A n \in Node \ {Root} : p[n] # None /\ p[n] < n}

\* add_child appends: a node's children are in the order they were attached
ChildrenOf(p) == [n \in Node |-> Ascending({c \in Node : p[c] = n})]

PlainWidget == GenericWidget(TRUE, FALSE)

SceneWidgets ==
    {NoWidget, PlainWidget, GenericWidget(TRUE, TRUE), GenericWidget(FALSE, FALSE)}

WidgetMaps == {w \in [Node -> SceneWidgets] :
                 Cardinality({n \in Node : w[n] # PlainWidget}) <= MaxSpecial}

\* ExclusiveGroup::new
NewGroup(allow_deselect, ctx) ==
    [allow_deselect |-> allow_deselect, deselect_others |-> DeselectOthers,
     on_selected |-> OnSelected(ctx), buttons |-> << >>]

\* the Layout the solver gives a node of a scene whose geometry plays no role
UnitLayout == TaffyLayout(0, 1, SideOffsets(0, 0), SideOffsets(0, 0))

\* Gui::new, then the construction of a scene (tree p, widgets w, solver output s)
InitGui(p, w, s, g, ex) ==
    /\ nodes = Node
    /\ widget = w
    /\ parent = p
    /\ children = ChildrenOf(p)
    /\ dirty = TRUE
    /\ solved = s
    /\ final_layout = [n \in Node |-> ZeroLayout]
    /\ layouts = << >>
    /\ input = DefaultInput
    /\ grabbed_node = None
    /\ draw_dirty = TRUE
    /\ group = g
    /\ executor = ex
    /\ panicked = FALSE
    /\ last_event = MouseWheel
    /\ was_grabbed = None
    /\ seen = DefaultInput
    /\ visited = << >>
    /\ unconsumed = TRUE
    /\ invoked = << >>
    /\ submitted = [funcs |-> << >>, context |-> {}]
    /\ muts = 0
    /\ last_op = "other"
    /\ prev_grabbers = {}
    /\ laid = [children |-> [n \in Node |-> << >>], widget |-> [n \in Node |-> NoWidget]]
    /\ style = [n \in Node |-> DefaultStyle]
    /\ lwidget = [n \in Node |-> NoLayoutWidget]
    /\ area = [n \in Node |-> NewArea]
    /\ arranged = [n \in Node |-> << >>]
    /\ notified = {}
    /\ window = ZeroRect
    /\ passes = 0

\* a tree of widgets of any kind; the events are those no widget of the scene reads
Init ==
    \E p \in ParentMaps, w \in WidgetMaps :
        InitGui(p, w, [n \in Node |-> UnitLayout], NewGroup(FALSE, "Gui"), NoExecutor)

DispatchEvents == {MouseWheel}

Next ==
    \/ Layout
    \/ \E event \in DispatchEvents, acts \in [Deciders -> InputAction] :
           InputEvent(event, acts)
    \/ \E node \in Node : Delete(node)
    \/ \E node \in Node, visible \in BOOLEAN : SetVisible(node, visible)

Spec == Init /\ [][Next]_vars

\* ------------------------------------------------- borders and paddings

MaxInset == 1

\* the Layout the solver gives node n: at n within its parent, with a border of
\* `inset` on both sides and a padding of `inset` on the left
InsetLayout(n, inset) ==
    TaffyLayout(n, 2 * MaxNodes, SideOffsets(inset, inset), SideOffsets(inset, 0))

\* a tree of plain widgets with borders and paddings
InitInsets ==
    \E p \in ParentMaps, insets \in [Node -> 0 .. MaxInset] :
        InitGui(p, [n \in Node |-> PlainWidget],
                [n \in Node |-> InsetLayout(n, insets[n])], NewGroup(FALSE, "Gui"),
                NoExecutor)

NextInsets ==
    \/ Layout
    \/ \E event \in DispatchEvents, acts \in [Deciders -> {"Pass", "Grab"}] :
           InputEvent(event, acts)

SpecInsets == InitInsets /\ [][NextInsets]_vars

\* ---------------------------------------------------- an exclusive group
ButtonNodes == Node \ {Root}

\* ButtonBuilder::build_exclusive for every node of ButtonNodes, in order: the
\* member of node n has index n - 2 and is pushed to group.buttons
GroupOf(allow_deselect, ctx) ==
    [NewGroup(allow_deselect, ctx) EXCEPT !.buttons = Ascending(ButtonNodes)]

\* a row of buttons, one unit wide each, in a root container without a widget
RowLayout ==
    [n \in Node |->
        IF n = Root THEN TaffyLayout(0, MaxNodes - 1, SideOffsets(0, 0), SideOffsets(0, 0))
        ELSE TaffyLayout(n - 2, 1, SideOffsets(0, 0), SideOffsets(0, 0))]

RowParents == [n \in Node |-> IF n = Root THEN None ELSE Root]

\* the hotkeys given to the members
Hotkey == {1, 2}

\* members: enabled, at most one toggled on, with or without a hotkey
RowWidgets(selected, hotkeys) ==
    [n \in Node |->
        IF n = Root THEN NoWidget
        ELSE ExclusiveButton(TRUE, n = selected, hotkeys[n], n - 2)]

HotkeyMaps == {h \in [ButtonNodes -> Hotkey \cup {None}] :
                  Cardinality({n \in ButtonNodes : h[n] # None}) <= MaxHotkeys}

InitButtons ==
    \E selected \in ButtonNodes \cup {None}, hotkeys \in HotkeyMaps,
       allow_deselect \in BOOLEAN :
        InitGui(RowParents, RowWidgets(selected, hotkeys), RowLayout,
                GroupOf(allow_deselect, "Gui"), NoExecutor)

Points == 0 .. MaxNodes - 1

ButtonEvents ==
    {MouseWheel} \cup {Keyboard(h) : h \in Hotkey \cup {None}}
    \cup {MouseMotion(p) : p \in Points}
    \cup {MouseButton(primary, pressed) : primary, pressed \in BOOLEAN}

\* the application of silica-window: layout, then for every window event
\* input_event and at once execute on the Gui
NextButtons ==
    \/ Layout
    \/ \E event \in ButtonEvents :
           ~executor.held /\ InputEvent(event, << >>)
    \/ Execute(GuiContext)

SpecButtons == InitButtons /\ [][NextButtons]_vars

\* ------------------------------------------------- overlapping buttons

\* Button::new / Button::new_toggle + ButtonBuilder::build (set_enabled)
PlainButton(enabled, on_clicked) ==
    MakeWidget("button", TRUE, FALSE, IF enabled THEN "Normal" ELSE "Disable", None, FALSE,
               on_clicked,
               IF on_clicked = "Toggle"
               THEN EventFn("new_param", "Gui", "bool", "on_toggled")
               ELSE EventFn("new", "Gui", "", "on_clicked"),
               0)

\* buttons two units wide at 0 or 1 in the root: all of them cover point 1
OverlapLayout(at) ==
    [n \in Node |->
        IF n = Root THEN TaffyLayout(0, 3, SideOffsets(0, 0), SideOffsets(0, 0))
        ELSE TaffyLayout(at[n], 2, SideOffsets(0, 0), SideOffsets(0, 0))]

InitOverlap ==
    \E at \in [ButtonNodes -> 0 .. 1], enabled \in [ButtonNodes -> BOOLEAN],
       on_clicked \in {"Normal", "Toggle"} :
        InitGui(RowParents,
                [n \in Node |->
                    IF n = Root THEN NoWidget ELSE PlainButton(enabled[n], on_clicked)],
                OverlapLayout(at), NewGroup(FALSE, "Gui"), NoExecutor)

OverlapEvents ==
    {MouseMotion(p) : p \in 0 .. 2} \cup {MouseButton(TRUE, pressed) : pressed \in BOOLEAN}

NextOverlap ==
    \/ Layout
    \/ \E event \in OverlapEvents :
           ~executor.held /\ InputEvent(event, << >>)
    \/ Execute(GuiContext)

SpecOverlap == InitOverlap /\ [][NextOverlap]_vars

\* ------------------------------------------------- sliders among buttons

\* sliders and enabled buttons that overlap at point 1
InitSliders ==
    \E at \in [ButtonNodes -> 0 .. 1], kinds \in [ButtonNodes -> {"slider", "button"}] :
        InitGui(RowParents,
                [n \in Node |->
                    IF n = Root THEN NoWidget
                    ELSE IF kinds[n] = "slider" THEN NewSlider
                    ELSE PlainButton(TRUE, "Normal")],
                OverlapLayout(at), NewGroup(FALSE, "Gui"), NoExecutor)

SliderEvents == OverlapEvents \cup {MouseWheel, MouseButton(FALSE, TRUE)}

NextSliders ==
    \/ Layout
    \/ \E event \in SliderEvents :
           ~executor.held /\ InputEvent(event, << >>)
    \/ Execute(GuiContext)

SpecSliders == InitSliders /\ [][NextSliders]_vars

\* -------------------------------------------------- an application's queue
UnitFns ==
    {EventFn("new", "Gui", "", "on_clicked"), EventFn("new", "App", "", "on_clicked"),
     EventFn("new_param", "Gui", "bool", "on_toggled"), DeselectOthers}

UnitParams == {NoParam, Param("bool", << 1 >>), Param("GroupIndex", << 0 >>)}

\* a group whose second member is selected, and EventExecutor::new()
InitExec ==
    InitGui(RowParents, RowWidgets(3, [n \in ButtonNodes |-> None]), RowLayout,
            GroupOf(FALSE, "Gui"), NewExecutor)

\* the application fills the executor and executes it
NextExec ==
    \/ \E event \in UnitFns, param \in UnitParams : Queue(event, param)
    \/ MarkDrawDirty
    \/ \E context \in {GuiContext, AppContext} : Execute(context)

SpecExec == InitExec /\ [][NextExec]_vars


\* ------------------------------------------------ silica-layout: the caller

\* a tree of nodes handed to silica-layout: live nodes ns, parent map p and
\* children map c (a node without an entry is outside the map's domain),
\* styles s, widgets w
InitNodes(ns, p, c, s, w) ==
    /\ nodes = ns
    /\ widget = [n \in Node |-> NoWidget]
    /\ parent = p
    /\ children = c
    /\ dirty = TRUE
    /\ solved = [n \in Node |-> ZeroLayout]
    /\ final_layout = [n \in Node |-> ZeroLayout]
    /\ layouts = << >>
    /\ input = DefaultInput
    /\ grabbed_node = None
    /\ draw_dirty = TRUE
    /\ group = NewGroup(FALSE, "Gui")
    /\ executor = NoExecutor
    /\ panicked = FALSE
    /\ last_event = MouseWheel
    /\ was_grabbed = None
    /\ seen = DefaultInput
    /\ visited = << >>
    /\ unconsumed = TRUE
    /\ invoked = << >>
    /\ submitted = [funcs |-> << >>, context |-> {}]
    /\ muts = 0
    /\ last_op = "other"
    /\ prev_grabbers = {}
    /\ laid = [children |-> [n \in Node |-> << >>], widget |-> [n \in Node |-> NoWidget]]
    /\ style = s
    /\ lwidget = w
    /\ area = [n \in Node |-> NewArea]
    /\ arranged = [n \in Node |-> << >>]
    /\ notified = {}
    /\ window = ZeroRect
    /\ passes = 0

\* the variables silica-layout neither reads nor writes
gui_vars ==
    << nodes, widget, parent, children, dirty, solved, final_layout, layouts, input,
       grabbed_node, draw_dirty, group, executor, history_input, history_exec, muts, laid >>

\* measure_and_layout(nodes, children, id, rect), called by the owner of the tree
MeasureAndLayout(id, rect) ==
    /\ ~panicked
    /\ id \in nodes
    /\ \E st \in {measure_and_layout(PassState(area), id, rect)} :
           /\ area' = st.area
           /\ arranged' = st.arranged
           /\ notified' = st.notified
           /\ panicked' = st.panicked
    /\ last_op' = "measure_and_layout"
    /\ UNCHANGED << gui_vars, style, lwidget, window, passes >>

\* the nodes a frame's input dispatch and draw reach: the traversal starts at
\* the root and does not enter a node whose area is hidden
RECURSIVE FrameVisits(_)
FrameVisits(id) ==
    IF area[id].hidden
    THEN << >>
    ELSE << id >> \o (IF has_children(id)
                      THEN Flatten([i \in DOMAIN children[id] |-> FrameVisits(children[id][i])])
                      ELSE << >>)

\* one frame after a layout pass: input and draw go to the nodes reached
Frame ==
    /\ ~panicked
    /\ arranged[Root] # << >>
    /\ visited' = FrameVisits(Root)
    /\ last_op' = "frame"
    /\ UNCHANGED << nodes, widget, parent, children, dirty, solved, final_layout, layouts,
                    input, grabbed_node, draw_dirty, group, executor, panicked, last_event,
                    was_grabbed, seen, unconsumed, invoked, submitted, muts, prev_grabbers,
                    laid, layout_vars >>

MaxPasses == 2

\* Gui::set_area: the window was resized
SetArea(rect) ==
    /\ ~panicked
    /\ window # rect
    /\ window' = rect
    /\ dirty' = TRUE
    /\ passes' = 0
    /\ last_op' = "set_area"
    /\ UNCHANGED << nodes, widget, parent, children, solved, final_layout, layouts, input,
                    grabbed_node, draw_dirty, group, executor, panicked, history_input,
                    history_exec, muts, laid, style, lwidget, area, arranged, notified >>

\* Gui::modify_style: any change of a style asks for a new layout
ModifyStyle(id, new_style) ==
    /\ ~panicked
    /\ id \in nodes
    /\ muts < MaxMutations
    /\ style[id] # new_style
    /\ style' = [style EXCEPT ![id] = new_style]
    /\ dirty' = TRUE
    /\ passes' = 0
    /\ muts' = muts + 1
    /\ last_op' = "set_style"
    /\ UNCHANGED << nodes, widget, parent, children, solved, final_layout, layouts, input,
                    grabbed_node, draw_dirty, group, executor, panicked, history_input,
                    history_exec, laid, lwidget, area, arranged, notified, window >>

\* Gui::layout without its gate
GuiLayoutEager ==
    /\ ~panicked
    /\ passes < MaxPasses
    /\ passes' = passes + 1
    /\ \E st \in {measure_and_layout(PassState(area), Root, window)} :
           /\ area' = st.area
           /\ arranged' = st.arranged
           /\ notified' = st.notified
           /\ panicked' = st.panicked
    /\ dirty' = FALSE
    /\ last_op' = "layout"
    /\ UNCHANGED << nodes, widget, parent, children, solved, final_layout, layouts, input,
                    grabbed_node, draw_dirty, group, executor, history_input, history_exec,
                    muts, laid, style, lwidget, window >>

\* Gui::layout: the whole tree is measured and arranged, if anything asked for it
GuiLayout ==
    IF dirty
    THEN GuiLayoutEager
    ELSE /\ ~panicked
         /\ last_op' = "layout_skipped"
         /\ UNCHANGED << nodes, widget, parent, children, dirty, solved, final_layout,
                         layouts, input, grabbed_node, draw_dirty, group, executor, panicked,
                         history_input, history_exec, muts, laid, layout_vars >>

\* --------------------------------------------------------- a row of boxes

MaxBoxChildren == 3

MaxGap == 2

MaxIntrinsic == 2

BoxChildren(k) == [i \in 1 .. k |-> Root + i]

\* a leaf: a default node around a widget that measures length x 1 or 1 x length
LeafWidget(direction, length) ==
    LayoutWidget(IF horizontal(direction) THEN Size(length, 1) ELSE Size(1, length))

BoxAligns == {"Stretch", "End", "Center"}

BoxGaps == {0, MaxGap}

\* the window: as small as one large child, or roomy
BoxRects == {PixelRect(0, 0, MaxIntrinsic, MaxIntrinsic), PixelRect(0, 0, 100, 100)}

InitBox ==
    \E k \in 0 .. MaxBoxChildren, direction \in Direction, gap \in BoxGaps,
       main_align \in BoxAligns :
        \E lengths \in [1 .. k -> 0 .. MaxIntrinsic], growers \in SUBSET (1 .. k) :
            InitNodes(Root .. Root + k,
                      [n \in Root + 1 .. Root + k |-> Root],
                      [n \in {Root} |-> BoxChildren(k)],
                      [n \in Node |->
                          IF n = Root
                          THEN [DefaultStyle EXCEPT !.direction = direction, !.gap = gap,
                                                    !.main_align = main_align]
                          ELSE [DefaultStyle EXCEPT !.grow = (n - Root) \in growers]],
                      [n \in Node |->
                          IF n \in Root + 1 .. Root + k
                          THEN LeafWidget(direction, lengths[n - Root])
                          ELSE NoLayoutWidget])

NextBox == \E rect \in BoxRects : MeasureAndLayout(Root, rect)

SpecBox == InitBox /\ [][NextBox]_vars

\* the opposite direction on the same axis
reversed(direction) ==
    CASE direction = "Row" -> "RowReverse"
      [] direction = "RowReverse" -> "Row"
      [] direction = "Column" -> "ColumnReverse"
      [] direction = "ColumnReverse" -> "Column"

\* the owner of the tree writes the opposite direction into Node.style, after
\* a pass and before the next one
ReverseDirection(id) ==
    /\ ~panicked
    /\ id \in nodes
    /\ last_op = "measure_and_layout"
    /\ muts < MaxMutations
    /\ style' = [style EXCEPT ![id].direction = reversed(@)]
    /\ muts' = muts + 1
    /\ last_op' = "reverse"
    /\ UNCHANGED << nodes, widget, parent, children, dirty, solved, final_layout, layouts,
                    input, grabbed_node, draw_dirty, group, executor, panicked,
                    history_input, history_exec, laid, lwidget, area, arranged, notified,
                    window, passes >>

\* a row of boxes is arranged, reversed and arranged again
NextMirror ==
    \/ \E rect \in BoxRects : MeasureAndLayout(Root, rect)
    \/ ReverseDirection(Root)

SpecMirror == InitBox /\ [][NextMirror]_vars

\* ------------------------------------------------------- a tree of styles

MaxColumns == 2

MaxPadding == 1

MaxStyled == 2

Padding == PixelOffsets(MaxPadding, MaxPadding, MaxPadding, MaxPadding)

\* the styles of the inner nodes and leaves
NodeStyles ==
    {DefaultStyle,
     [DefaultStyle EXCEPT !.padding = Padding],
     [DefaultStyle EXCEPT !.layout = LayoutStack],
     [DefaultStyle EXCEPT !.layout = LayoutGrid(1)],
     [DefaultStyle EXCEPT !.layout = LayoutNone],
     [DefaultStyle EXCEPT !.hidden = TRUE],
     [DefaultStyle EXCEPT !.min_size = Size(1, 1), !.max_size = Size(1, 1)]}

\* the style maps in which at most MaxStyled nodes differ from the default
StyleMaps ==
    {styles \in [Node \ {Root} -> NodeStyles] :
        Cardinality({n \in Node \ {Root} : styles[n] # DefaultStyle}) <= MaxStyled}

\* the styles of the root
RootStyles ==
    {DefaultStyle,
     [DefaultStyle EXCEPT !.padding = Padding],
     [DefaultStyle EXCEPT !.layout = LayoutStack]}
    \cup {[DefaultStyle EXCEPT !.layout = LayoutGrid(columns)] : columns \in 0 .. MaxColumns}

\* the children map of a tree: a node without children has an empty list
\* (with_empty) or no entry at all
ChildrenMap(p, with_empty) ==
    LET all == ChildrenOf(p)
    IN  [n \in {m \in Node : with_empty \/ all[m] # << >>} |-> all[n]]

\* every node but the root carries a widget that measures 2 x 2
InitArrange ==
    \E p \in ParentMaps, with_empty \in BOOLEAN, root_style \in RootStyles,
       styles \in StyleMaps :
        InitNodes(Node, [n \in Node \ {Root} |-> p[n]], ChildrenMap(p, with_empty),
                  [n \in Node |->
                      IF n = Root THEN root_style ELSE styles[n]],
                  [n \in Node |->
                      IF n = Root THEN NoLayoutWidget ELSE LayoutWidget(Size(2, 2))])

\* the window: exactly the root's padding, one more, or roomy
ArrangeRects ==
    {PixelRect(0, 0, 2 * MaxPadding, 2 * MaxPadding),
     PixelRect(0, 0, 2 * MaxPadding + 1, 2 * MaxPadding + 1),
     PixelRect(0, 0, 100, 100)}

\* a tree built with default styles under any root, then restyled and resized
InitLazy ==
    \E p \in ParentMaps, with_empty \in BOOLEAN, root_style \in RootStyles :
        InitNodes(Node, [n \in Node \ {Root} |-> p[n]], ChildrenMap(p, with_empty),
                  [n \in Node |-> IF n = Root THEN root_style ELSE DefaultStyle],
                  [n \in Node |->
                      IF n = Root THEN NoLayoutWidget ELSE LayoutWidget(Size(2, 2))])

NextLazy ==
    \/ GuiLayout
    \/ \E rect \in ArrangeRects : SetArea(rect)
    \/ \E id \in Node, new_style \in NodeStyles : ModifyStyle(id, new_style)

SpecLazy == InitLazy /\ [][NextLazy]_vars

\* the owner of the tree writes a new style into Node.style
SetStyle(id, new_style) ==
    /\ ~panicked
    /\ id \in nodes
    /\ muts < MaxMutations
    /\ style[id] # new_style
    /\ style' = [style EXCEPT ![id] = new_style]
    /\ muts' = muts + 1
    /\ last_op' = "set_style"
    /\ UNCHANGED << nodes, widget, parent, children, dirty, solved, final_layout, layouts,
                    input, grabbed_node, draw_dirty, group, executor, panicked,
                    history_input, history_exec, laid, lwidget, area, arranged, notified,
                    window, passes >>

\* a tree is arranged again and again, in windows of several sizes and with
\* a style changed in between
NextRestyle ==
    \/ \E rect \in ArrangeRects : MeasureAndLayout(Root, rect)
    \/ \E id \in Node, new_style \in NodeStyles : SetStyle(id, new_style)

SpecRestyle == InitLazy /\ [][NextRestyle]_vars

NextArrange ==
    \/ \E rect \in ArrangeRects : MeasureAndLayout(Root, rect)
    \/ Frame

SpecArrange == InitArrange /\ [][NextArrange]_vars

\* ------------------------------------------------------ aligned children

MaxAligned == 2

\* the window: at the origin, or away from it and not square
AlignRects == {PixelRect(0, 0, 10, 10), PixelRect(5, 7, 20, 30)}

\* a Box or Stack container of up to MaxAligned children; the container and
\* every child have an alignment of their own, and child n measures n x (n + 1)
InitAlign ==
    \E kind \in {LayoutBox, LayoutStack}, direction \in Direction,
       main_align \in Align, cross_align \in Align, k \in 1 .. MaxAligned :
        \E aligns \in [1 .. k -> Align], growers \in SUBSET (1 .. k) :
            InitNodes(Root .. Root + k,
                      [n \in Root + 1 .. Root + k |-> Root],
                      [n \in {Root} |-> BoxChildren(k)],
                      [n \in Node |->
                          IF n = Root
                          THEN [DefaultStyle EXCEPT !.layout = kind, !.direction = direction,
                                                    !.main_align = main_align,
                                                    !.cross_align = cross_align]
                          ELSE IF n \in Root + 1 .. Root + k
                               THEN [DefaultStyle EXCEPT !.grow = (n - Root) \in growers,
                                                         !.cross_align = aligns[n - Root]]
                               ELSE DefaultStyle],
                      [n \in Node |->
                          IF n \in Root + 1 .. Root + k
                          THEN LayoutWidget(Size(n, n + 1))
                          ELSE NoLayoutWidget])

NextAlign == \E rect \in AlignRects : MeasureAndLayout(Root, rect)

SpecAlign == InitAlign /\ [][NextAlign]_vars

\* ------------------------------------------------------------- a grid

\* the window: smaller than two cells, or roomy and away from the origin
GridRects == {PixelRect(0, 0, 3, 3), PixelRect(5, 7, 20, 30)}

\* a Grid container of up to MaxBoxChildren leaves, each wide or tall
InitGrid ==
    \E columns \in 1 .. MaxColumns, direction \in Direction, gap \in BoxGaps,
       main_align \in {"Stretch", "End"}, cross_align \in BoxAligns,
       k \in 0 .. MaxBoxChildren :
        \E wide \in SUBSET (1 .. k), growers \in SUBSET (1 .. k) :
            InitNodes(Root .. Root + k,
                      [n \in Root + 1 .. Root + k |-> Root],
                      [n \in {Root} |-> BoxChildren(k)],
                      [n \in Node |->
                          IF n = Root
                          THEN [DefaultStyle EXCEPT !.layout = LayoutGrid(columns),
                                                    !.direction = direction, !.gap = gap,
                                                    !.main_align = main_align,
                                                    !.cross_align = cross_align]
                          ELSE [DefaultStyle EXCEPT !.grow = (n - Root) \in growers]],
                      [n \in Node |->
                          IF n \in Root + 1 .. Root + k
                          THEN LayoutWidget(IF (n - Root) \in wide
                                            THEN Size(MaxIntrinsic, 1)
                                            ELSE Size(1, MaxIntrinsic))
                          ELSE NoLayoutWidget])

NextGrid == \E rect \in GridRects : MeasureAndLayout(Root, rect)

SpecGrid == InitGrid /\ [][NextGrid]_vars

\* ------------------------------------------------------------ tree topology

\* SecondaryMap::insert and SecondaryMap::remove
Put(map, key, value) ==
    [k \in DOMAIN map \cup {key} |-> IF k = key THEN value ELSE map[k]]

Drop(map, keys) == [k \in DOMAIN map \ keys |-> map[k]]

\* the handles below a node, by the children lists
RECURSIVE Below(_, _)
Below(c, id) ==
    IF id \in DOMAIN c
    THEN UNION {{c[id][i]} \cup Below(c, c[id][i]) : i \in DOMAIN c[id]}
    ELSE {}

\* the lists of distinct handles of a set
Orderings(S) ==
    {list \in [1 .. Cardinality(S) -> S] : \A i, j \in DOMAIN list : list[i] = list[j] => i = j}

tree_unchanged ==
    UNCHANGED << widget, solved, final_layout, layouts, input, grabbed_node, draw_dirty,
                 group, executor, panicked, history_input, history_exec, muts, laid,
                 layout_vars >>

\* insert(style, widget?): a new handle in the arena, attached to nothing
Insert(id) ==
    /\ id \notin nodes
    /\ nodes' = nodes \cup {id}
    /\ dirty' = TRUE
    /\ last_op' = "insert"
    /\ UNCHANGED << parent, children >>
    /\ tree_unchanged

\* set_children(parent, list): valid once, on handles not attached yet
SetChildren(id, list) ==
    /\ id \in nodes
    /\ id \notin DOMAIN children
    /\ \A i \in DOMAIN list :
           /\ list[i] \in nodes \ {Root, id}
           /\ list[i] \notin DOMAIN parent
           /\ id \notin Below(children, list[i])
    /\ children' = Put(children, id, list)
    /\ parent' = [k \in DOMAIN parent \cup Range(list) |->
                     IF k \in Range(list) THEN id ELSE parent[k]]
    /\ dirty' = TRUE
    /\ last_op' = "set_children"
    /\ UNCHANGED nodes
    /\ tree_unchanged

\* add_child that forgets the list the child was in
AddChildNoDetach(id, child) ==
    /\ id \in nodes
    /\ child \in nodes \ {Root, id}
    /\ id \notin Below(children, child)
    /\ children' = Put(children, id,
                       (IF id \in DOMAIN children THEN children[id] ELSE << >>)
                       \o << child >>)
    /\ parent' = Put(parent, child, id)
    /\ dirty' = TRUE
    /\ last_op' = "add_child"
    /\ UNCHANGED nodes
    /\ tree_unchanged

\* add_child(parent, child): appends, after taking the child out of the list
\* of the parent it had
AddChild(id, child) ==
    /\ id \in nodes
    /\ child \in nodes \ {Root, id}
    /\ id \notin Below(children, child)
    /\ LET detached == IF child \in DOMAIN parent
                       THEN [children EXCEPT ![parent[child]] = Without(@, child)]
                       ELSE children
       IN  children' = Put(detached, id,
                           (IF id \in DOMAIN detached THEN detached[id] ELSE << >>)
                           \o << child >>)
    /\ parent' = Put(parent, child, id)
    /\ dirty' = TRUE
    /\ last_op' = "add_child"
    /\ UNCHANGED nodes
    /\ tree_unchanged

\* remove_child(parent, child)
RemoveChild(id, child) ==
    /\ id \in DOMAIN children
    /\ child \in Range(children[id])
    /\ children' = [children EXCEPT ![id] = Without(@, child)]
    /\ parent' = Drop(parent, {child})
    /\ dirty' = TRUE
    /\ last_op' = "remove_child"
    /\ UNCHANGED nodes
    /\ tree_unchanged

\* delete(handle): the handle is detached from its parent, then it and all
\* the handles below it leave the arena and both maps
DeleteSubtree(id) ==
    /\ id \in nodes \ {Root}
    /\ LET gone == {id} \cup Below(children, id)
           detached == IF id \in DOMAIN parent
                       THEN [children EXCEPT ![parent[id]] = Without(@, id)]
                       ELSE children
       IN  /\ nodes' = nodes \ gone
           /\ children' = Drop(detached, gone)
           /\ parent' = Drop(parent, gone)
    /\ dirty' = TRUE
    /\ last_op' = "delete"
    /\ tree_unchanged

\* Gui::new: the root alone
InitTree ==
    InitNodes({Root}, [n \in {} |-> None], [n \in {} |-> << >>],
              [n \in Node |-> DefaultStyle], [n \in Node |-> NoLayoutWidget])

NextTree ==
    \/ \E id \in Node : Insert(id)
    \/ \E id \in Node, S \in SUBSET Node : \E list \in Orderings(S) : SetChildren(id, list)
    \/ \E id, child \in Node : AddChild(id, child)
    \/ \E id, child \in Node : RemoveChild(id, child)
    \/ \E id \in Node : DeleteSubtree(id)

SpecTree == InitTree /\ [][NextTree]_vars

\* ===================================================== dispatch: C1 .. C4
VisitedNodes == {visited[i].node : i \in 1 .. Len(visited)}

\* the place of a node's handler call in the last dispatch
Position(node) == CHOOSE i \in 1 .. Len(visited) : visited[i].node = node

\* the tree as the last layout pass read it
LaidParents(node) == {p \in Node : node \in Range(laid.children[p])}

RECURSIVE LaidAncestors(_)
LaidAncestors(node) ==
    LaidParents(node) \cup UNION {LaidAncestors(p) : p \in LaidParents(node)}

LaidSubtree(node) == {node} \cup {n \in Node : node \in LaidAncestors(n)}

\* the layer of a node: the separate-layer widgets on its path from the root
LaidLayer(node) ==
    Cardinality({m \in LaidAncestors(node) \cup {node} :
                    laid.widget[m].kind # "none" /\ laid.widget[m].separate_layer})

\* a lies under an earlier child, b under a later child, of one container
UnderEarlierSibling(a, b) ==
    \E p \in Node : \E i, j \in 1 .. Len(laid.children[p]) :
        /\ i < j
        /\ a \in LaidSubtree(laid.children[p][i])
        /\ b \in LaidSubtree(laid.children[p][j])

NormalDispatch == last_op = "input_event" /\ was_grabbed = None /\ ~panicked

\* the live widgets the last layout pass recorded
LiveLaidWidgets ==
    {n \in Node : has_widget(nodes, widget, n)
                  /\ \E i \in 1 .. Len(layouts) : \E k \in 1 .. Len(layouts[i]) :
                         layouts[i][k].node = n}

\* C1 as stated: in a non-grabbed dispatch every container's children are offered
\* the event in reverse list order, each child's whole subtree before the next
\* child, and the container's own widget after all of its children.
C1_ReverseDepthFirst ==
    NormalDispatch =>
        \A a, b \in VisitedNodes :
            /\ b \in LaidAncestors(a) => Position(a) < Position(b)
            /\ UnderEarlierSibling(a, b) => Position(b) < Position(a)

\* C1 amended: the order is that of the layers first: a widget on a higher layer
\* is offered the event before every widget on a lower layer; among the widgets
\* of one layer, children in reverse list order, subtree by subtree, and the
\* container's own widget after its children (the tree being the one the last
\* layout pass read).
C1_ReverseDepthFirstPerLayer ==
    NormalDispatch =>
        \A a, b \in VisitedNodes :
            /\ LaidLayer(a) > LaidLayer(b) => Position(a) < Position(b)
            /\ LaidLayer(a) = LaidLayer(b) /\ b \in LaidAncestors(a)
                   => Position(a) < Position(b)
            /\ LaidLayer(a) = LaidLayer(b) /\ UnderEarlierSibling(a, b)
                   => Position(b) < Position(a)

\* a container with children [A, B, C] was offered the event: C, B, A, container
C1_Witness ==
    /\ NormalDispatch
    /\ \E p \in Node :
           /\ Len(laid.children[p]) = 3
           /\ Len(visited) = 4
           /\ \A i \in 1 .. 3 : visited[i].node = laid.children[p][4 - i]
           /\ visited[4].node = p

\* C2: a widget that returned Grab on one event and Pass or Block on the next was
\* the only receiver of that next event, saw input.grabbed, and left the grabbed
\* target empty; a dispatch that starts with the target empty is a normal
\* traversal: no handler sees input.grabbed and every laid-out widget is called.
C2_GrabPersistence ==
    /\ \A w \in prev_grabbers :
           (\E i \in 1 .. Len(visited) :
                visited[i].node = w /\ visited[i].action \in {"Pass", "Block"})
           => /\ Len(visited) = 1
              /\ visited[1].grabbed
              /\ was_grabbed = w
              /\ grabbed_node = None
    /\ NormalDispatch =>
           /\ \A i \in 1 .. Len(visited) : ~visited[i].grabbed
           /\ VisitedNodes = LiveLaidWidgets

\* the grabbed widget received the event after its Grab and let go of the grab
C2_Witness ==
    /\ last_op = "input_event"
    /\ was_grabbed # None
    /\ was_grabbed \in prev_grabbers
    /\ Len(visited) = 1
    /\ visited[1].node = was_grabbed
    /\ visited[1].action = "Block"
    /\ Cardinality(LiveLaidWidgets) > 1

\* C3 as stated: whenever the grabbed target is set at the start of a dispatch,
\* the field is cleared first and exactly one handler runs, the grabbed node's,
\* with input.grabbed set.
C3_GrabbedDispatchRunsOneHandler ==
    (last_op = "input_event" /\ was_grabbed # None) =>
        /\ Len(visited) = 1
        /\ visited[1].node = was_grabbed
        /\ visited[1].grabbed
        /\ grabbed_node # None => (grabbed_node = was_grabbed /\ visited[1].action = "Grab")

\* C4: in a non-grabbed dispatch every laid-out widget has its handler called
\* exactly once, whatever earlier handlers returned, and every handler called
\* after one that returned Block or Grab sees input.blocked.
C4_CooperativeBlock ==
    NormalDispatch =>
        /\ VisitedNodes = LiveLaidWidgets
        /\ Len(visited) = Cardinality(LiveLaidWidgets)
        /\ \A i, j \in 1 .. Len(visited) :
               i < j /\ visited[i].action \in {"Block", "Grab"} => visited[j].blocked

\* handlers ran after the first one blocked, and saw the block
C4_Witness ==
    /\ NormalDispatch
    /\ Len(visited) >= 3
    /\ visited[1].action = "Block"
    /\ visited[2].blocked /\ visited[2].action = "Grab"
    /\ visited[3].blocked


\* ===================================================== input snapshot: C5, C6
PrimaryPress(event) == event.type = "MouseButton" /\ event.primary /\ event.pressed

\* C5: when a dispatch returns, clicked, double_clicked, hotkey, blocked and
\* grabbed of the snapshot are cleared, pointer and button_pressed are what the
\* handlers of that dispatch saw; and the handlers of a dispatch see the pointer
\* and the pressed state the previous dispatch left unless the event itself is a
\* motion (pointer) or a primary button event (pressed state).
C5_EdgeFieldsClearedLevelFieldsKept ==
    [][ (last_op' = "input_event" /\ ~panicked') =>
          /\ ~input'.clicked /\ ~input'.double_clicked /\ input'.hotkey = None
          /\ ~input'.blocked /\ ~input'.grabbed
          /\ input'.pointer = seen'.pointer
          /\ input'.button_pressed = seen'.button_pressed
          /\ \A i \in 1 .. Len(visited') :
                /\ visited'[i].input.pointer = seen'.pointer
                /\ visited'[i].input.button_pressed = seen'.button_pressed
                /\ last_event'.type # "MouseMotion"
                       => visited'[i].input.pointer = input.pointer
                /\ ~(last_event'.type = "MouseButton" /\ last_event'.primary)
                       => visited'[i].input.button_pressed = input.button_pressed
      ]_vars

\* a keyboard event was dispatched to handlers that saw the button still pressed
\* and the pointer where earlier events put it
C5_Witness ==
    /\ last_op = "input_event"
    /\ last_event.type = "Keyboard"
    /\ Len(visited) > 0
    /\ visited[1].input.button_pressed /\ visited[1].input.pointer = 2
    /\ visited[1].input.hotkey = 1
    /\ input.button_pressed /\ input.pointer = 2 /\ input.hotkey = None

\* C6: a handler sees input.clicked only in the dispatch of a press of the
\* primary button that arrives while button_pressed is false.
C6_ClickedOnlyOnPressWhileReleased ==
    [][ last_op' = "input_event" =>
          \A i \in 1 .. Len(visited') :
              visited'[i].input.clicked
                  => PrimaryPress(last_event') /\ ~input.button_pressed
      ]_vars

\* handlers saw a click
C6_Witness ==
    /\ last_op = "input_event"
    /\ PrimaryPress(last_event)
    /\ Len(visited) > 1
    /\ \A i \in 1 .. Len(visited) : visited[i].input.clicked

FailsFatally(unit, context) ==
    \/ unit.event.ctor = "new_param" /\ (~unit.param.some \/ unit.param.type # unit.event.ptype)
    \/ unit.event.ctx \notin context

\* C8: an execute call panics exactly when the queue holds a unit that expects a
\* parameter and was queued with none or with one of another type, or a unit
\* whose context type the executing context does not provide.
C8_ContractViolationPanics ==
    last_op = "execute" =>
        (panicked <=> \E i \in 1 .. Len(submitted.funcs) :
                          FailsFatally(submitted.funcs[i], submitted.context))

\* a unit queued with a parameter of another type ended the execution
C8_Witness ==
    /\ last_op = "execute"
    /\ panicked
    /\ LET unit == submitted.funcs[Len(invoked) + 1]
       IN  /\ unit.event.ctor = "new_param"
           /\ unit.param.some /\ unit.param.type # unit.event.ptype
           /\ unit.event.ctx \in submitted.context

\* ================================================== exclusive group: C9, C10
ToggledOn == {n \in ButtonNodes : has_widget(nodes, widget, n) /\ widget[n].toggled}

\* the calls of the last dispatch in which a member became selected
SelectingCalls ==
    {i \in 1 .. Len(visited) :
        visited[i].clicked /\ ~visited[i].was_toggled /\ visited[i].toggled}

C10_ClickOnSelectedIsNoOp ==
    (last_op = "input_event" /\ ~group.allow_deselect) =>
        \A i \in 1 .. Len(visited) :
            (visited[i].clicked /\ visited[i].was_toggled) =>
                /\ visited[i].toggled
                /\ visited[i].queued = 0
                /\ widget[visited[i].node].toggled
                /\ (\A j \in 1 .. Len(visited) : visited[j].clicked => j = i)
                       => /\ executor.funcs = << >>
                          /\ \A j \in 1 .. Len(visited) :
                                 visited[j].toggled = visited[j].was_toggled

\* the selected member of a group that disallows deselection was clicked
C10_Witness ==
    /\ last_op = "input_event"
    /\ ~group.allow_deselect
    /\ PrimaryPress(last_event)
    /\ \E i \in 1 .. Len(visited) :
           /\ visited[i].clicked /\ visited[i].was_toggled /\ visited[i].toggled
           /\ visited[i].queued = 0


\* ========================================== exclusive group notification: C11
\* the index of a member: its place in group.buttons, counted from zero
IndexInGroup(node) ==
    (CHOOSE k \in 1 .. Len(group.buttons) : group.buttons[k] = node) - 1

RECURSIVE QueuedBefore(_)
QueuedBefore(i) == IF i <= 1 THEN 0 ELSE QueuedBefore(i - 1) + visited[i - 1].queued

\* the units the i-th handler call of the last dispatch put on the queue
UnitsOf(i) ==
    SubSeq(executor.funcs, QueuedBefore(i) + 1, QueuedBefore(i) + visited[i].queued)

EffectiveClick(i) ==
    visited[i].clicked /\ (~visited[i].was_toggled \/ group.allow_deselect)

\* C11: a click on a member that is not selected, or that is selected in a group
\* that allows deselection, toggles the member and queues exactly one
\* selection-changed notification: after one deselect-others unit and carrying
\* the member's index when the member became selected, alone and carrying none
\* when it became deselected.
C11_OneNotificationPerClick ==
    last_op = "input_event" =>
        \A i \in 1 .. Len(visited) :
            EffectiveClick(i) =>
                LET index == IndexInGroup(visited[i].node)
                    units == UnitsOf(i)
                IN  /\ visited[i].toggled = ~visited[i].was_toggled
                    /\ IF visited[i].toggled
                       THEN /\ Len(units) = 2
                            /\ units[1].event.name = "deselect_others"
                            /\ units[1].param = Param("GroupIndex", << index >>)
                            /\ units[2].event.name = "on_selected"
                            /\ units[2].param = Param("OptionUsize", << index >>)
                       ELSE /\ Len(units) = 1
                            /\ units[1].event.name = "on_selected"
                            /\ units[1].param = Param("OptionUsize", << >>)

\* one hotkey press selected a member and deselected another
C11_Witness ==
    /\ last_op = "input_event"
    /\ \E i, j \in 1 .. Len(visited) :
           /\ EffectiveClick(i) /\ visited[i].toggled /\ Len(UnitsOf(i)) = 2
           /\ EffectiveClick(j) /\ ~visited[j].toggled /\ Len(UnitsOf(j)) = 1

\* ================================================== box containers: C12, C13

ArrangedRect(id) == arranged[id][1]

main_start(direction, rect) == IF horizontal(direction) THEN rect.x ELSE rect.y

main_length(direction, rect) == main_size(direction, rect_size(rect))

RECURSIVE SumSeq(_)
SumSeq(seq) == IF seq = << >> THEN 0 ELSE Head(seq) + SumSeq(Tail(seq))

\* the Box containers whose children the last pass arranged
ArrangedBoxes ==
    {id \in nodes : /\ style[id].layout.kind = "Box"
                    /\ has_children(id)
                    /\ arranged[id] # << >>
                    /\ ~area[id].hidden}

HasGrowers(id) == \E i \in DOMAIN children[id] : style[children[id][i]].grow

\* the children's extents on the main axis, with the gaps, fit the container
MainAxisFits(id) ==
    LET direction == style[id].direction
        kids == children[id]
        lengths == [i \in DOMAIN kids |-> main_length(direction, ArrangedRect(kids[i]))]
    IN  kids # << >> =>
            SumSeq(lengths) + style[id].gap * (Len(kids) - 1)
                <= main_length(direction, area[id].content_rect)

\* each child starts where the one before it in direction order ends, plus gap
Contiguous(id) ==
    LET direction == style[id].direction
        kids == children[id]
        start(i) == main_start(direction, ArrangedRect(kids[i]))
        length(i) == main_length(direction, ArrangedRect(kids[i]))
    IN  \A i \in 1 .. Len(kids) - 1 :
            IF direction \in {"Row", "Column"}
            THEN start(i + 1) = start(i) + length(i) + style[id].gap
            ELSE start(i) = start(i + 1) + length(i + 1) + style[id].gap

\* C12: for every Box container without growers, after arrange the children's
\* main-axis sizes plus gap * (n - 1) are at most the container's main-axis
\* size, and consecutive children are contiguous in direction order with
\* exactly gap between them
C12_BoxMainAxisConservation ==
    (last_op = "measure_and_layout" /\ ~panicked) =>
        \A id \in ArrangedBoxes :
            ~HasGrowers(id) => MainAxisFits(id) /\ Contiguous(id)

\* a container arranged at exactly its measured size whose children overrun it
C12_MeasuredSizeOverrun ==
    /\ last_op = "measure_and_layout"
    /\ Root \in ArrangedBoxes
    /\ ~HasGrowers(Root)
    /\ main_length(style[Root].direction, ArrangedRect(Root))
           = main_size(style[Root].direction, area[Root].measured_size)
    /\ ~MainAxisFits(Root)

Growers(id) == {i \in DOMAIN children[id] : style[children[id][i]].grow}

\* what each grower gets: the floor of the free main-axis space over the growers
GrowShare(id) ==
    LET direction == style[id].direction
        kids == children[id]
        measured == [i \in DOMAIN kids |->
                        main_size(direction, area[kids[i]].measured_size)]
        used == SumSeq(measured) + style[id].gap * (Len(kids) - 1)
        available == main_length(direction, area[id].content_rect)
    IN  Max(0, available - used) \div Cardinality(Growers(id))

\* C13: in a Box container with g >= 1 growers, after arrange each grower's
\* main-axis size is its measured size plus floor(max(0, available - used) / g)
\* and every other child keeps its measured size; the remainder is not given out
C13_GrowDistribution ==
    (last_op = "measure_and_layout" /\ ~panicked) =>
        \A id \in ArrangedBoxes :
            HasGrowers(id) =>
                \A i \in DOMAIN children[id] :
                    LET direction == style[id].direction
                        kid == children[id][i]
                    IN  main_length(direction, ArrangedRect(kid))
                            = main_size(direction, area[kid].measured_size)
                              + (IF i \in Growers(id) THEN GrowShare(id) ELSE 0)

\* three growers measured 0 in a container of 100 with gap 0 get 33 each
C13_Witness ==
    /\ last_op = "measure_and_layout"
    /\ Root \in ArrangedBoxes
    /\ style[Root].gap = 0
    /\ main_length(style[Root].direction, area[Root].content_rect) = 100
    /\ Len(children[Root]) = 3
    /\ \A i \in 1 .. 3 :
           /\ style[children[Root][i]].grow
           /\ main_size(style[Root].direction, area[children[Root][i]].measured_size) = 0
           /\ main_length(style[Root].direction, ArrangedRect(children[Root][i])) = 33

\* ============================================ hidden nodes and sizes: C14 ..

RECURSIVE Descendants(_)
Descendants(id) ==
    IF has_children(id)
    THEN UNION {{children[id][i]} \cup Descendants(children[id][i]) : i \in DOMAIN children[id]}
    ELSE {}

\* the nodes the last pass arranged in a rect smaller than their box offsets
Squeezed ==
    {id \in nodes : /\ arranged[id] # << >>
                    /\ collapsed_strictly(ArrangedRect(id), box_offsets(style[id]))}

LayoutOps == {"layout", "layout_skipped"}

LayoutCall == last_op \in LayoutOps /\ last_op' \in LayoutOps /\ ~panicked

RECURSIVE MeasuredBelow(_)
MeasuredBelow(id) ==
    {id} \cup (IF has_children(id) /\ style[id].layout.kind # "None"
               THEN UNION {MeasuredBelow(children[id][i]) : i \in DOMAIN children[id]}
               ELSE {})

\* a container with nothing to lay out: no children, or a grid of no columns
Degenerate(id) ==
    \/ ~has_children(id)
    \/ children[id] = << >>
    \/ style[id].layout = LayoutGrid(0)

\* the children of grids: a grid stores its column sizes in them
InGrid(id) ==
    \E owner \in DOMAIN children :
        style[owner].layout.kind = "Grid" /\ id \in Range(children[owner])

\* clamp(size, min_size, max_size), axis by axis
Clamp(size, min_size, max_size) ==
    Size(Min(Max(size.width, min_size.width), max_size.width),
         Min(Max(size.height, min_size.height), max_size.height))

\* clamp(max(aggregate, widget intrinsic size), min_size, max_size) + box_size
MeasuredFrom(id, aggregate) ==
    size_add(Clamp(IF lwidget[id].some
                   THEN size_max(aggregate, lwidget[id].size)
                   ELSE aggregate,
                   style[id].min_size, style[id].max_size),
             box_size(style[id]))

\* C18: measuring and arranging a Box, Stack or Grid container with an empty
\* children list, or a Grid with zero columns, ends without a fatal error and
\* with a zero aggregate size
C18_DegenerateContainersAreNotErrors ==
    /\ ~panicked
    /\ arranged[Root] # << >> =>
           \A id \in MeasuredBelow(Root) :
               (Degenerate(id) /\ ~InGrid(id)) =>
                   area[id].measured_size = MeasuredFrom(id, ZeroSize)

\* a grid of zero columns with a children list was measured: the pass died
C18_ZeroColumnsPanic ==
    /\ panicked
    /\ style[Root].layout = LayoutGrid(0)
    /\ has_children(Root)

\* sizes placed one after the other on the main axis, gap between them
RECURSIVE Accumulated(_, _, _, _)
Accumulated(direction, gap, sizes, size) ==
    IF sizes = << >>
    THEN size
    ELSE Accumulated(direction, gap, Tail(sizes), accumulate(direction, gap, size, Head(sizes)))

RECURSIVE Largest(_)
Largest(sizes) ==
    IF sizes = << >> THEN ZeroSize ELSE size_max(Head(sizes), Largest(Tail(sizes)))

\* the layout aggregate of a node, from the measured sizes of its children
Aggregate(id) ==
    LET kids == IF has_children(id) THEN children[id] ELSE << >>
        sizes == [i \in DOMAIN kids |-> area[kids[i]].measured_size]
        s == style[id]
    IN  CASE s.layout.kind = "None" \/ ~has_children(id) -> ZeroSize
          [] s.layout.kind = "Box" -> Accumulated(s.direction, s.gap, sizes, ZeroSize)
          [] s.layout.kind = "Stack" -> Largest(sizes)
          [] s.layout.kind = "Grid" ->
               LET columns == s.layout.columns
                   rows == div_ceil(Len(kids), columns)
                   line == Accumulated(s.direction, s.gap,
                                       SubSeq(sizes, 1, Min(columns, Len(kids))), ZeroSize)
               IN  IF rows = 0
                   THEN line
                   ELSE IF horizontal(s.direction)
                        THEN Size(line.width, line.height * rows + s.gap * (rows - 1))
                        ELSE Size(line.width * rows + s.gap * (rows - 1), line.height)

\* the size a node measures to by its own style, widget and children
OwnMeasure(id) == MeasuredFrom(id, Aggregate(id))

WithinMinMax(id) ==
    LET inner == size_sub(area[id].measured_size, box_size(style[id]))
    IN  /\ style[id].min_size.width <= inner.width
        /\ inner.width <= style[id].max_size.width
        /\ style[id].min_size.height <= inner.height
        /\ inner.height <= style[id].max_size.height

PassDone == arranged[Root] # << >> /\ ~panicked

\* the children of the same column of the grid a node is in
ColumnMates(id) ==
    {mate \in Node :
        \E owner \in DOMAIN children : \E i, j \in DOMAIN children[owner] :
            /\ style[owner].layout.kind = "Grid"
            /\ style[owner].layout.columns > 0
            /\ children[owner][i] = id
            /\ children[owner][j] = mate
            /\ i % style[owner].layout.columns = j % style[owner].layout.columns}

\* C19 as stated: after a measure pass the measured_size of every measured
\* node is clamp(max(aggregate, intrinsic), min_size, max_size) + box_size of
\* its own style, so it lies between min_size + box_size and max_size +
\* box_size, for the children of Box, Stack and Grid containers alike
C19_MeasuredSizeIsClamped ==
    PassDone =>
        \A id \in MeasuredBelow(Root) :
            /\ area[id].measured_size = OwnMeasure(id)
            /\ WithinMinMax(id)

\* C19, amended: that holds of the root and of the children of Box and Stack
\* containers; a child of a Grid container ends the pass with the column
\* size, the componentwise largest such value among the children of its column
C19_MeasuredSizeIsClampedOrColumnSize ==
    PassDone =>
        \A id \in MeasuredBelow(Root) :
            IF InGrid(id)
            THEN /\ \A mate \in ColumnMates(id) :
                        /\ OwnMeasure(mate).width <= area[id].measured_size.width
                        /\ OwnMeasure(mate).height <= area[id].measured_size.height
                 /\ \E mate \in ColumnMates(id) :
                        OwnMeasure(mate).width = area[id].measured_size.width
                 /\ \E mate \in ColumnMates(id) :
                        OwnMeasure(mate).height = area[id].measured_size.height
            ELSE /\ area[id].measured_size = OwnMeasure(id)
                 /\ WithinMinMax(id)

\* a capped node measured at its cap under a Box or Stack, and a capped child
\* of a grid measured at the size of a larger column mate
C19_Witness ==
    /\ PassDone
    /\ \E id \in MeasuredBelow(Root) :
           /\ ~InGrid(id)
           /\ style[id].max_size = Size(1, 1)
           /\ area[id].measured_size = Size(1, 1)
    /\ \E id \in MeasuredBelow(Root) :
           /\ InGrid(id)
           /\ style[id].max_size = Size(1, 1)
           /\ area[id].measured_size = Size(2, 2)

\* hidden and both rects are what arrange writes for a node that has room
Placed(id) ==
    LET content == inner_rect(ArrangedRect(id), box_offsets(style[id]))
    IN  /\ area[id].hidden = (style[id].hidden \/ style[id].layout = LayoutNone)
        /\ area[id].content_rect = content
        /\ area[id].background_rect = outer_rect(content, style[id].padding)

\* C20: arrange marks a node hidden for lack of space only when its rect is
\* smaller than its box offsets on some axis; for every rect that is not
\* smaller on either axis, a rect exactly equal to the box offsets included,
\* the node gets hidden = Style.hidden || layout == None and its content_rect
\* and background_rect are written
C20_HiddenOnlyWhenSmaller ==
    PassDone =>
        \A id \in nodes :
            (/\ arranged[id] # << >>
             /\ ~collapsed_strictly(ArrangedRect(id), box_offsets(style[id])))
                => Placed(id)

\* a visible padded node arranged in a rect exactly as large as its box
\* offsets: it is hidden and its rects are not written
C20_ExactFitHidden ==
    /\ PassDone
    /\ \E id \in nodes :
           /\ arranged[id] # << >>
           /\ ~style[id].hidden /\ style[id].layout # LayoutNone
           /\ box_offsets(style[id]) = Padding
           /\ rect_size(ArrangedRect(id)) = box_size(style[id])
           /\ area[id].hidden
           /\ area[id].content_rect = ZeroRect

\* ============================================== tree topology: C16, C17

\* every handle in a children list has a parent entry naming the list's owner
ListedHaveParent ==
    \A id \in DOMAIN children : \A i \in DOMAIN children[id] :
        /\ children[id][i] \in DOMAIN parent
        /\ parent[children[id][i]] = id

\* every parent entry has its handle in that parent's list
ParentsListThem ==
    \A child \in DOMAIN parent :
        /\ parent[child] \in DOMAIN children
        /\ child \in Range(children[parent[child]])

Occurrences(child) ==
    {<< id, i >> \in Node \X (1 .. MaxNodes) :
        id \in DOMAIN children /\ i \in DOMAIN children[id] /\ children[id][i] = child}

ArrangedKids(id, kind) ==
    IF PassDone /\ id \in nodes /\ style[id].layout.kind = kind /\ has_children(id)
       /\ ~area[id].hidden
    THEN Range(children[id])
    ELSE {}

\* on one axis, `rect` is where `align` puts something of `size` in `line`
AxisPlaced(align, is_horizontal, line, size, rect) ==
    LET line_start == IF is_horizontal THEN line.x ELSE line.y
        line_length == IF is_horizontal THEN line.width ELSE line.height
        start == IF is_horizontal THEN rect.x ELSE rect.y
        length == IF is_horizontal THEN rect.width ELSE rect.height
        own == IF is_horizontal THEN size.width ELSE size.height
    IN  CASE align = "Stretch" -> start = line_start /\ length = line_length
          [] align = "Start" -> start = line_start /\ length = own
          [] align = "End" -> start = line_start + (line_length - own) /\ length = own
          [] align = "Center" ->
               start = line_start + TruncDiv(line_length - own, 2) /\ length = own

\* the cross axis of a Box child is placed by `align`
BoxCrossPlaced(id, child, align) ==
    AxisPlaced(align, ~horizontal(style[id].direction), area[id].content_rect,
               area[child].measured_size, ArrangedRect(child))

\* C21 as stated: in Box arrange every child's cross-axis position and extent
\* follow the child's own cross_align, whatever the container's cross_align is
C21_BoxCrossAlignOfChild ==
    \A child \in ArrangedKids(Root, "Box") :
        BoxCrossPlaced(Root, child, style[child].cross_align)

\* C21: in Box arrange every child's cross-axis position and extent follow the
\* container's cross_align (Stretch fills the line, Start, End and Center place
\* the child's measured cross size), whatever the child's own cross_align is
C21_BoxCrossAlignOfContainer ==
    \A child \in ArrangedKids(Root, "Box") :
        BoxCrossPlaced(Root, child, style[Root].cross_align)

\* a Box child that asks for the start of the line was put at its end, as the
\* container asks
C21_Witness ==
    \E child \in ArrangedKids(Root, "Box") :
        /\ style[Root].cross_align = "End"
        /\ style[child].cross_align = "Start"
        /\ BoxCrossPlaced(Root, child, "End")
        /\ ~BoxCrossPlaced(Root, child, "Start")

\* both axes of a Stack child fill the container's content rect
FillsRect(id, child) == ArrangedRect(child) = area[id].content_rect

\* C22 as stated: in Stack arrange a child that grows is given the container's
\* whole content rect, on both axes
C22_StackGrowFillsRect ==
    \A child \in ArrangedKids(Root, "Stack") :
        style[child].grow => FillsRect(Root, child)

\* the rect of a Stack child, from the container's rect and the child alone
StackPlaced(id, child) ==
    LET is_horizontal == horizontal(style[id].direction)
        line == area[id].content_rect
        size == area[child].measured_size
    IN  /\ AxisPlaced(IF style[child].grow THEN "Stretch" ELSE style[id].main_align,
                      is_horizontal, line, size, ArrangedRect(child))
        /\ AxisPlaced(style[child].cross_align, ~is_horizontal, line, size,
                      ArrangedRect(child))

\* C22: in Stack arrange a child that grows fills the container's content rect
\* on the main axis, whatever the container's main_align is, and on the cross
\* axis it is placed by its own cross_align (it fills the rect when that is
\* Stretch); every child is placed against the same full rect, unaffected by
\* its siblings
C22_StackGrowFillsMainAxis ==
    \A child \in ArrangedKids(Root, "Stack") :
        /\ StackPlaced(Root, child)
        /\ style[child].grow /\ style[child].cross_align = "Stretch" => FillsRect(Root, child)

\* a growing Stack child under a container that centres fills the main axis
\* and not the cross axis, next to a sibling that does not grow
C22_Witness ==
    \E child \in ArrangedKids(Root, "Stack"), other \in ArrangedKids(Root, "Stack") :
        /\ child # other
        /\ style[Root].main_align = "Center"
        /\ style[child].grow /\ ~style[other].grow
        /\ style[child].cross_align = "End"
        /\ StackPlaced(Root, child)
        /\ ~FillsRect(Root, child)

\* ------------------------------------------------------------------ grid: C23

cross_start(direction, rect) == IF horizontal(direction) THEN rect.y ELSE rect.x

cross_length(direction, rect) == IF horizontal(direction) THEN rect.height ELSE rect.width

\* the list positions (from 0) of the children of an arranged Grid root
GridPositions ==
    IF ArrangedKids(Root, "Grid") = {} THEN {} ELSE 0 .. Len(children[Root]) - 1

GridCell(i) == ArrangedRect(children[Root][i + 1])

\* the measured cross-axis size of the first child
FirstRowSize ==
    LET size == area[children[Root][1]].measured_size
    IN  IF horizontal(style[Root].direction) THEN size.height ELSE size.width

\* cell j is the next column after cell i, in direction order
NextColumn(i, j) ==
    LET direction == style[Root].direction
        gap == style[Root].gap
    IN  IF direction \in {"Row", "Column"}
        THEN main_start(direction, GridCell(j))
             = main_start(direction, GridCell(i)) + main_length(direction, GridCell(i)) + gap
        ELSE main_start(direction, GridCell(i))
             = main_start(direction, GridCell(j)) + main_length(direction, GridCell(j)) + gap

\* C23: the child at list position i of a Grid is arranged in column
\* i mod columns and row i div columns: the children of one column share their
\* main-axis origin and extent, a column follows the one before it, every cell
\* has the first child's measured cross-axis size as its cross-axis extent, the
\* cells of one row share their cross-axis origin, and the cross-axis origins of
\* consecutive rows differ by that extent plus gap
C23_GridPlacement ==
    LET direction == style[Root].direction
        columns == style[Root].layout.columns
    IN  \A i \in GridPositions :
            /\ cross_length(direction, GridCell(i)) = FirstRowSize
            /\ \A j \in GridPositions :
                   /\ i % columns = j % columns =>
                          /\ main_start(direction, GridCell(i))
                             = main_start(direction, GridCell(j))
                          /\ main_length(direction, GridCell(i))
                             = main_length(direction, GridCell(j))
                   /\ i \div columns = j \div columns =>
                          cross_start(direction, GridCell(i))
                          = cross_start(direction, GridCell(j))
                   /\ (i \div columns = j \div columns /\ j = i + 1) => NextColumn(i, j)
                   /\ j = i + columns =>
                          cross_start(direction, GridCell(j))
                          = cross_start(direction, GridCell(i)) + FirstRowSize
                            + style[Root].gap

\* a grid of two columns and two rows with a gap has been arranged
C23_Witness ==
    /\ GridPositions = 0 .. 2
    /\ style[Root].layout.columns = 2
    /\ style[Root].gap > 0
    /\ cross_start(style[Root].direction, GridCell(2))
       > cross_start(style[Root].direction, GridCell(0))
    /\ main_start(style[Root].direction, GridCell(1))
       # main_start(style[Root].direction, GridCell(0))

\* ---------------------------------------------------- reverse directions: C24

\* the mirror image of `rect` about the main-axis centre of `container`
Mirrored(direction, container, rect) ==
    IF horizontal(direction)
    THEN [rect EXCEPT !.x = 2 * container.x + container.width - (rect.x + rect.width)]
    ELSE [rect EXCEPT !.y = 2 * container.y + container.height - (rect.y + rect.height)]

\* this step arranges again, in the same rect, a Box that was arranged and
\* then reversed
ArrangedAgainReversed ==
    /\ last_op = "reverse"
    /\ last_op' = "measure_and_layout"
    /\ style[Root].layout.kind = "Box"
    /\ arranged[Root] # << >>
    /\ arranged'[Root] = arranged[Root]

\* C24: for the same container rect, children, gap, main_align and grow flags,
\* the rect a Box gives to each child under a direction is the mirror image,
\* about the container's main-axis centre, of the rect it gives under the
\* opposite direction, with the same extents on both axes
C24_ReverseMirrorsForward ==
    [][ArrangedAgainReversed =>
           \A child \in Range(children[Root]) :
               ArrangedRect(child)'
               = Mirrored(style[Root].direction, ArrangedRect(Root), ArrangedRect(child))]_vars

\* two children with a gap between them were arranged, reversed and arranged
\* again: the first child now lies after the second
C24_Witness ==
    /\ muts > 0
    /\ last_op = "measure_and_layout"
    /\ style[Root].direction \in {"RowReverse", "ColumnReverse"}
    /\ style[Root].gap > 0
    /\ Len(children[Root]) >= 2
    /\ main_start(style[Root].direction, ArrangedRect(children[Root][1]))
       > main_start(style[Root].direction, ArrangedRect(children[Root][2]))
          + main_length(style[Root].direction, ArrangedRect(children[Root][2]))

\* ------------------------------------------------------- box aggregate: C25

\* a Box root without widget, clamp or box offsets, measured with its children:
\* its measured size is the aggregate BoxLayout::measure returned
MeasuredBoxes ==
    {id \in ArrangedBoxes :
        /\ id = Root
        /\ ~lwidget[id].some
        /\ style[id] = [DefaultStyle EXCEPT !.direction = style[id].direction,
                                             !.gap = style[id].gap,
                                             !.main_align = style[id].main_align]
        /\ Len(children[id]) >= 1}

\* the sum of the children's measured main-axis sizes plus the gaps between them
MainOfChildren(id) ==
    LET kids == children[id]
        direction == style[id].direction
    IN  SumSeq([i \in DOMAIN kids |-> main_size(direction, area[kids[i]].measured_size)])
        + style[id].gap * (Len(kids) - 1)

\* the largest measured cross-axis size of the children
CrossOfChildren(id) ==
    LET kids == children[id]
        size == Largest([i \in DOMAIN kids |-> area[kids[i]].measured_size])
    IN  IF horizontal(style[id].direction) THEN size.height ELSE size.width

\* C25: the main-axis aggregate that measure computes for a Box of n >= 1
\* children is the sum of the children's measured main-axis sizes plus
\* gap * (n - 1), which is what arrange uses as used_size, and the cross-axis
\* aggregate is the largest measured cross-axis size of the children
C25_BoxAggregate ==
    \A id \in MeasuredBoxes :
        LET direction == style[id].direction
        IN  /\ main_size(direction, area[id].measured_size) = MainOfChildren(id)
            /\ MainOfChildren(id)
               = used_size(PassState(area), direction, style[id].gap, children[id])
                 - style[id].gap
            /\ cross_length(direction, PixelRect(0, 0, area[id].measured_size.width,
                                                 area[id].measured_size.height))
               = CrossOfChildren(id)

\* a Box whose first child measures nothing on the main axis: measure left
\* out a gap that arrange counts
C25_GapSkipped ==
    \E id \in MeasuredBoxes :
        LET direction == style[id].direction
        IN  /\ style[id].gap > 0
            /\ main_size(direction, area[children[id][1]].measured_size) = 0
            /\ main_size(direction, area[id].measured_size) < MainOfChildren(id)
            /\ MainOfChildren(id)
               = used_size(PassState(area), direction, style[id].gap, children[id])
                 - style[id].gap

\* ------------------------------------------------- areas after a pass: C26

\* the last step was a pass over the tree as it is now
LastPass == last_op = "measure_and_layout" /\ ~panicked /\ arranged[Root] # << >>

\* what the last pass computes from the styles, the topology and the root rect
\* alone: its result on nodes that no pass has touched
FreshPass ==
    measure_and_layout(PassState([n \in Node |-> NewArea]), Root, ArrangedRect(Root)).area

StrictAncestors(id) == {a \in nodes : id \in Descendants(a)}

\* measure descends into every container but those of layout kind None
MeasureReaches(id) == \A a \in StrictAncestors(id) : style[a].layout.kind # "None"

\* layout descends into every node that it did not mark hidden
LayoutReaches(id) == \A a \in StrictAncestors(id) : ~area[a].hidden

\* C26 as stated: after a pass the Area of every node of the tree is the value
\* that pass computed from the current styles, topology and root rect; no node
\* keeps a value left by an earlier pass
C26_EveryAreaOverwritten ==
    LastPass => LET fresh == FreshPass
                IN  \A id \in nodes : area[id] = fresh[id]

\* C26: after a pass, measured_size is the value of that pass in every node that
\* has no ancestor of layout kind None, and hidden is the value of that pass in
\* every node that has no ancestor marked hidden, as are content_rect and
\* background_rect unless the node's rect is too small for its box offsets;
\* the other nodes keep what an earlier pass left
C26_ReachedAreasOverwritten ==
    LastPass =>
        LET fresh == FreshPass
        IN  \A id \in nodes :
                /\ MeasureReaches(id) => area[id].measured_size = fresh[id].measured_size
                /\ LayoutReaches(id) =>
                       /\ area[id].hidden = fresh[id].hidden
                       /\ ~collapsed(ArrangedRect(id), box_offsets(style[id])) =>
                              /\ area[id].content_rect = fresh[id].content_rect
                              /\ area[id].background_rect = fresh[id].background_rect

\* after a style change and a pass, a node below a hidden node still has the
\* rect of the pass before, while its parent has the values of this pass
C26_Witness ==
    /\ LastPass
    /\ muts > 0
    /\ \E id \in nodes \ {Root} :
           /\ ~LayoutReaches(id)
           /\ LayoutReaches(parent[id])
           /\ ~area[id].hidden
           /\ area[id].content_rect # ZeroRect
           /\ area[parent[id]] = FreshPass[parent[id]]

\* ------------------------------------------------- the handler's rect: C27

\* the content rect of a node in absolute coordinates: its rect moved by the
\* locations of all its ancestors, inside its border and padding
AbsoluteContentRect(node) ==
    LET solution == final_layout[node]
        outer == translate(LayoutRect(solution), AncestorOffset(node))
    IN  inner_box(inner_box(outer, solution.border), solution.padding)

\* C27: the rect handed to every input handler is the content rect of its node,
\* inside border and padding and in absolute coordinates, on the normal
\* traversal as well as on the dispatch to the grabbed node
C27_HandlerGetsContentRect ==
    last_op = "input_event" =>
        \A i \in DOMAIN visited : visited[i].rect = AbsoluteContentRect(visited[i].node)

\* the grabbed node was handed its content rect, and the traversal hands the
\* same node a different rect, the one that includes its border and padding
C27_RectDependsOnPath ==
    /\ last_op = "input_event"
    /\ Len(visited) = 1
    /\ visited[1].grabbed
    /\ visited[1].rect = AbsoluteContentRect(visited[1].node)
    /\ \E entry \in Range(TraversalOrder) :
           /\ entry.node = visited[1].node
           /\ entry.rect # visited[1].rect

\* ------------------------------------------------ the unconsumed event: C28

\* no handler of the last dispatch returned Block or Grab
NobodyBlocked == \A i \in DOMAIN visited : visited[i].action = "Pass"

\* the units the handlers of the last dispatch queued
QueuedByHandlers == SumSeq([i \in DOMAIN visited |-> visited[i].queued])

\* C28: a dispatch, grabbed or not, returns the original event as unconsumed
\* exactly when none of its handlers returned Block or Grab, and it returns the
\* queue that the handlers filled during the dispatch
C28_UnconsumedIffNobodyBlocked ==
    last_op = "input_event" =>
        /\ unconsumed <=> NobodyBlocked
        /\ executor # NoExecutor
        /\ Len(executor.funcs) = QueuedByHandlers

\* the same of the dispatches that return
C28_ReturningDispatches == panicked \/ C28_UnconsumedIffNobodyBlocked

\* a dispatch in which no handler blocked, since none ran, returned nothing:
\* the grabbed node was gone and looking up its rect panicked
C28_NoReturn ==
    /\ last_op = "input_event"
    /\ was_grabbed # None
    /\ was_grabbed \notin nodes
    /\ NobodyBlocked
    /\ ~unconsumed
    /\ panicked

\* ------------------------------------------------- one click per press: C29

\* the last operation was a non-grabbed dispatch of a primary-button press
\* without hotkey
PressDispatch ==
    /\ NormalDispatch
    /\ PrimaryPress(last_event)
    /\ seen.hotkey = None

\* the handlers of buttons that the last dispatch called
ButtonCalls == {i \in DOMAIN visited : laid.widget[visited[i].node].kind = "button"}

\* the pointer is within the rect that call i was handed
PointerWithin(i) == contains(visited[i].rect, seen.pointer)

\* C29: in a non-grabbed dispatch of a primary-button press without hotkey at
\* most one button registers a click and queues its event: the first button
\* visited whose rect contains the pointer returns Block, disabled or not, and
\* every button visited after it sees input.blocked, returns Pass, registers no
\* click and queues nothing; a button visited before it does neither
C29_OneClickPerPress ==
    PressDispatch =>
        /\ Cardinality({i \in ButtonCalls : visited[i].clicked}) <= 1
        /\ Cardinality({i \in ButtonCalls : visited[i].queued > 0}) <= 1
        /\ \A i \in ButtonCalls :
               IF \E h \in ButtonCalls : h < i /\ PointerWithin(h)
               THEN /\ visited[i].blocked
                    /\ visited[i].action = "Pass"
                    /\ ~visited[i].clicked
                    /\ visited[i].queued = 0
               ELSE IF PointerWithin(i)
               THEN visited[i].action = "Block"
               ELSE ~visited[i].clicked /\ visited[i].queued = 0

\* a press over two buttons: the first visited registered the click and
\* queued its event, the second saw the block and did nothing
C29_Witness ==
    /\ PressDispatch
    /\ \E i, j \in ButtonCalls :
           /\ i < j
           /\ PointerWithin(i) /\ PointerWithin(j)
           /\ visited[i].clicked /\ visited[i].queued = 1
           /\ laid.widget[visited[j].node].state # "Disable"
           /\ visited[j].blocked /\ ~visited[j].clicked

\* ------------------------------------------------------- slider drag: C30

Sliders == {n \in nodes : widget[n].kind = "slider"}

\* the calls of the last dispatch in which a slider's state became or stayed Press
PressedCalls ==
    {i \in DOMAIN visited :
        visited[i].node \in Sliders /\ widget[visited[i].node].state = "Press"}

\* the last dispatch went to the slider that held the grab
GrabbedSliderDispatch ==
    last_op = "input_event" /\ ~panicked /\ was_grabbed \in Sliders

\* C30: a slider that is visited unblocked with the pointer over it while the
\* primary button is down goes to Press and returns Grab; from then on every
\* event that leaves the primary button pressed is dispatched to that slider
\* alone, which returns Grab again and queues one on_changed unit; on the
\* event that releases the button it does not return Grab and the grabbed
\* target is left empty, so the next event is dispatched by normal traversal
C30_SliderDragLifecycle ==
    /\ NormalDispatch =>
           \A i \in DOMAIN visited :
               (/\ visited[i].node \in Sliders
                /\ ~visited[i].blocked
                /\ PointerWithin(i)
                /\ seen.button_pressed)
               => /\ i \in PressedCalls
                  /\ visited[i].action = "Grab"
                  /\ visited[i].queued = 1
                  /\ grabbed_node = visited[i].node
    /\ GrabbedSliderDispatch =>
           /\ Len(visited) = 1
           /\ visited[1].node = was_grabbed
           /\ visited[1].grabbed
           /\ IF seen.button_pressed
              THEN /\ visited[1].action = "Grab"
                   /\ visited[1].queued = 1
                   /\ grabbed_node = was_grabbed
              ELSE /\ visited[1].action # "Grab"
                   /\ visited[1].queued = 0
                   /\ grabbed_node = None

\* a drag goes on: the slider that held the grab got an event with the pointer
\* outside its rect, next to other widgets, and grabbed again
C30_Witness ==
    /\ GrabbedSliderDispatch
    /\ last_event.type = "MouseMotion"
    /\ ~PointerWithin(1)
    /\ visited[1].action = "Grab"
    /\ visited[1].queued = 1
    /\ Cardinality(LiveLaidWidgets) > 1

\* a drag ends: the slider that held the grab got the release and let go
C30_Released ==
    /\ GrabbedSliderDispatch
    /\ last_event = MouseButton(TRUE, FALSE)
    /\ visited[1].action = "Block"
    /\ grabbed_node = None

====
